---------------------------- MODULE Spec2Model ----------------------------
(***************************************************************************)
(* A model of src/excel_processor.py (class ExcelProcessor): the tables    *)
(* read from a workbook, the six process_* operations and the pandas       *)
(* operations they are built from.                                         *)
(*                                                                         *)
(* Representation.                                                         *)
(*  - A cell is a record [k, n, s]: k = "num" (a number n), k = "str" (a   *)
(*    Python str, s = its sequence of Unicode code points), k = "nan"      *)
(*    (a blank cell, NaN/None) or k = "err" (an operation on the cell      *)
(*    raised; never an input).                                             *)
(*  - A DataFrame is [cols |-> sequence of labels, rows |-> sequence of    *)
(*    rows], a row being a function from the labels to cells.              *)
(*  - Column labels are TLA+ strings.  The source's labels are Chinese;    *)
(*    the model writes them in pinyin, one string per label:               *)
(*      banqun 板群, jingyingdanwei 经营单位, kehu 客户, gongyingshang     *)
(*      供应商, kucundidian 库存地点, chanpin 产品, yuqishiyou 逾期事由,   *)
(*      jine/wanyuan 金额/万元, kucun/wanyuan 库存/万元, hetonghao 合同号, *)
(*      erjibumen 二级部门, konghuolei 控货类业务逾期金额, shouxinlei      *)
(*      授信类业务逾期金额, benzhouhuankuanjihua 本周还款计划,             *)
(*      benzhoudaohuojihua 本周到货计划, benzhouchulijihua 本周处理计划,   *)
(*      jituanzaishou 集团在手(万元), jituanzhanyong 集团占用(万元), ...   *)
(*    (each config below repeats the Chinese label beside its string).     *)
(*  - pandas is modelled as pandas 2: groupby sorts its keys and drops     *)
(*    rows with a NaN key, Series.sum() of an object column adds with      *)
(*    Python's +, an exception raised inside agg reaches the caller, a     *)
(*    text cell assigned into a float column stays text.                   *)
(***************************************************************************)
EXTENDS Integers, Sequences, FiniteSets, TLC

VARIABLES
    tables,            \* self.tables: name -> DataFrame
    deposit_tables,    \* self.deposit_tables: name -> DataFrame
    future_tables,     \* self.future_tables: name -> DataFrame
    processed_tables,  \* self.processed_tables: name -> DataFrame
    ret,               \* the last operation, its threshold and what it returned
    hashseed,          \* the interpreter's string-hash order, fixed for the process
    series,            \* the column values handed to a reducer (reducer specifications)
    reduced,           \* the reducer's last result
    threshold_input,   \* ThresholdInputDialog.threshold_input: the text of the line edit
    app_threshold,     \* what ThresholdInputDialog.get_threshold last returned
    workbook,          \* the file at self.file_path: sheet name -> rows of cells
    export_button      \* ExcelProcessorApp.export_button.isEnabled()

vars == <<tables, deposit_tables, future_tables, processed_tables, ret, hashseed,
         series, reduced, threshold_input, app_threshold, workbook, export_button>>

(***************************************************************************)
(* Cells and Python strings                                                *)
(***************************************************************************)
Num(n) == [k |-> "num", n |-> n, s |-> <<>>]
Str(s) == [k |-> "str", n |-> 0, s |-> s]
NaN == [k |-> "nan", n |-> 0, s |-> <<>>]
Raised == [k |-> "err", n |-> 0, s |-> <<>>]

\* pd.isna(val)
isna(c) == c.k = "nan"

\* Code points the model's strings are written with.
SLASH == 47              \* '/'
SPACE == 32              \* ' '
MINUS == 45              \* '-'
DIGIT0 == 48             \* '0'
\* the characters str.strip() removes (Unicode whitespace, the common ones)
WhitespaceChars == {9, 10, 11, 12, 13, 28, 29, 30, 31, SPACE, 133, 160, 12288}

QITA == <<20854, 20182>>                      \* '其他'
SEE_DETAIL == <<35265, 26126, 32454, 34920>>   \* '见明细表'
HEJI == <<21512, 35745>>                       \* '合计'
XIAOJI == <<23567, 35745>>                     \* '小计'
QIHONG == <<21551, 23439, 23454, 19994>>       \* '启宏实业'
KONGHUO_YUQI == <<25511, 36135, 36926, 26399, 26410, 25910, 27454>>  \* '控货逾期未收款'
YICHUYUN == <<24050, 20986, 36816, 26410, 25910, 27719, 65288, 38750, 79, 65, 65289>> \* '已出运未收汇（非OA）'
NAN_TEXT == <<110, 97, 110>>                   \* 'nan'

Range(f) == {f[i] : i \in DOMAIN f}

RECURSIVE lstrip(_)
lstrip(s) == IF s # <<>> /\ Head(s) \in WhitespaceChars THEN lstrip(Tail(s)) ELSE s

RECURSIVE rstrip(_)
rstrip(s) ==
    IF s # <<>> /\ s[Len(s)] \in WhitespaceChars
    THEN rstrip(SubSeq(s, 1, Len(s) - 1)) ELSE s

\* str.strip()
strip(s) == rstrip(lstrip(s))

\* the decimal digits of a natural number
RECURSIVE Digits(_)
Digits(n) == IF n < 10 THEN <<DIGIT0 + n>> ELSE Digits(n \div 10) \o <<DIGIT0 + (n % 10)>>

\* str(val) of a cell's value
ToStr(c) ==
    CASE c.k = "str" -> c.s
      [] c.k = "num" -> IF c.n < 0 THEN <<MINUS>> \o Digits(-c.n) ELSE Digits(c.n)
      [] OTHER -> NAN_TEXT

\* sep.join(parts)
RECURSIVE Join(_, _)
Join(parts, sep) ==
    IF parts = <<>> THEN <<>>
    ELSE IF Len(parts) = 1 THEN parts[1]
    ELSE parts[1] \o sep \o Join(Tail(parts), sep)

\* text.split(sep) for a one-character separator
RECURSIVE Split(_, _)
Split(text, sep) ==
    IF \A i \in DOMAIN text : text[i] # sep THEN <<text>>
    ELSE LET i == CHOOSE j \in DOMAIN text :
                      text[j] = sep /\ \A h \in 1..(j - 1) : text[h] # sep
         IN <<SubSeq(text, 1, i - 1)>> \o Split(SubSeq(text, i + 1, Len(text)), sep)

\* pat in text
Contains(text, pat) ==
    \E i \in 0..(Len(text) - Len(pat)) : SubSeq(text, i + 1, i + Len(pat)) = pat

\* lexicographic order of two strings by code point (Python's str <)
RECURSIVE TextLess(_, _)
TextLess(a, b) ==
    IF b = <<>> THEN FALSE
    ELSE IF a = <<>> THEN TRUE
    ELSE IF Head(a) # Head(b) THEN Head(a) < Head(b)
    ELSE TextLess(Tail(a), Tail(b))

\* order of two cells of a sort: numbers by value, strings by code point, a
\* number before a string
CellLess(a, b) ==
    CASE a.k = "num" /\ b.k = "num" -> a.n < b.n
      [] a.k = "str" /\ b.k = "str" -> TextLess(a.s, b.s)
      [] OTHER -> a.k = "num" /\ b.k = "str"

\* order of two group keys (tuples of cells of one length), component by component
RECURSIVE KeyLess(_, _)
KeyLess(a, b) ==
    IF a = <<>> \/ b = <<>> THEN FALSE
    ELSE IF Head(a) # Head(b) THEN CellLess(Head(a), Head(b))
    ELSE KeyLess(Tail(a), Tail(b))

\* the elements of a set of keys, ascending
RECURSIVE SortKeys(_)
SortKeys(S) ==
    IF S = {} THEN <<>>
    ELSE LET m == CHOOSE x \in S : \A y \in S : x = y \/ KeyLess(x, y)
         IN <<m>> \o SortKeys(S \ {m})

\* every sequence that lists the elements of S once each
RECURSIVE Orders(_)
Orders(S) ==
    IF S = {} THEN {<<>>}
    ELSE UNION {{<<x>> \o t : t \in Orders(S \ {x})} : x \in S}

(***************************************************************************)
(* The reducers (nested functions of the three bucketed operations)        *)
(***************************************************************************)
\* the values combine_text_values keeps: str(val) of every cell that is not
\* NaN and not blank after strip(); the set is of the strings as they are
NonBlankStrings(ser) ==
    {ToStr(ser[i]) : i \in {j \in DOMAIN ser : ~isna(ser[j]) /\ strip(ToStr(ser[j])) # <<>>}}

\* list(set(...)): the elements of S in the set's iteration order.  The order
\* is that of the string hashes, which Python draws anew for every process:
\* h, a listing of strings without repetition, stands for it.
ListOfSet(S, h) ==
    IF Cardinality(S) = 1 THEN <<CHOOSE x \in S : TRUE>>
    ELSE SelectSeq(h, LAMBDA x : x \in S)

\* combine_text_values(series), under hash order h
combine_text_values(ser, h) ==
    LET unique_values == ListOfSet(NonBlankStrings(ser), h)
    IN Str(IF unique_values # <<>> THEN Join(unique_values, <<SLASH>>) ELSE <<>>)

\* a + b of two summands of Series.sum() on an object column
Add(a, b) ==
    CASE a.k = "err" \/ b.k = "err" -> Raised
      [] a.k = "num" /\ b.k = "num" -> Num(a.n + b.n)
      [] a.k = "str" /\ b.k = "str" -> Str(a.s \o b.s)
      [] OTHER -> Raised        \* TypeError: int + str

RECURSIVE AddAll(_)
AddAll(vals) ==
    IF Len(vals) = 1 THEN vals[1]
    ELSE Add(AddAll(SubSeq(vals, 1, Len(vals) - 1)), vals[Len(vals)])

\* sum_numeric_values(series) = series.sum(): NaN counts as 0 (skipna), the
\* rest is added with Python's +, so strings concatenate and a number plus a
\* string raises
sum_numeric_values(ser) ==
    IF ser = <<>> THEN Num(0)
    ELSE AddAll([i \in DOMAIN ser |-> IF isna(ser[i]) THEN Num(0) ELSE ser[i]])

IsDigit(c) == c >= DIGIT0 /\ c <= DIGIT0 + 9

RECURSIVE DigitsValue(_)
DigitsValue(s) ==
    IF s = <<>> THEN 0 ELSE 10 * DigitsValue(SubSeq(s, 1, Len(s) - 1)) + (s[Len(s)] - DIGIT0)

\* pd.to_numeric(value, errors='coerce') of one cell: a number stays, a string
\* of decimal digits (with an optional sign, surrounding blanks ignored) is
\* parsed, everything else becomes NaN.  (Decimal points and exponents are not
\* modelled: no string of the model holds one.)
to_numeric(c) ==
    CASE c.k \in {"num", "err"} -> c
      [] c.k = "str" ->
           LET t == strip(c.s)
               neg == t # <<>> /\ Head(t) = MINUS
               d == IF neg THEN Tail(t) ELSE t
           IN IF d # <<>> /\ \A i \in DOMAIN d : IsDigit(d[i])
              THEN Num(IF neg THEN -DigitsValue(d) ELSE DigitsValue(d))
              ELSE NaN
      [] OTHER -> NaN

\* Series.sum() of a numeric (float64) column: NaN skipped
RECURSIVE NumericSum(_)
NumericSum(ser) ==
    IF ser = <<>> THEN 0
    ELSE (IF ser[1].k = "num" THEN ser[1].n ELSE 0) + NumericSum(Tail(ser))

(***************************************************************************)
(* DataFrames                                                              *)
(***************************************************************************)
DataFrame(cols, rows) == [cols |-> cols, rows |-> rows]

Columns(df) == Range(df.cols)

\* df[col] as a sequence of cells
Column(df, col) == [i \in DOMAIN df.rows |-> df.rows[i][col]]

\* df[mask]: the rows that satisfy Keep
FilterRows(df, Keep(_)) == DataFrame(df.cols, SelectSeq(df.rows, Keep))

\* df.rename(columns=mapping), mapping a function from old labels to new ones
Rename(df, mapping) ==
    LET newcols == [i \in DOMAIN df.cols |->
                       IF df.cols[i] \in DOMAIN mapping THEN mapping[df.cols[i]]
                       ELSE df.cols[i]]
        old(l) == df.cols[CHOOSE i \in DOMAIN newcols : newcols[i] = l]
    IN DataFrame(newcols,
                 [r \in DOMAIN df.rows |-> [l \in Range(newcols) |-> df.rows[r][old(l)]]])

\* df[col] = value for every row (a new column goes last, an old one is overwritten)
SetColumn(df, col, Value(_)) ==
    DataFrame(IF col \in Columns(df) THEN df.cols ELSE Append(df.cols, col),
              [r \in DOMAIN df.rows |->
                  [l \in Columns(df) \cup {col} |->
                      IF l = col THEN Value(df.rows[r]) ELSE df.rows[r][l]]])

\* A header row may show one label twice.  The model gives the second column
\* a name of its own and remembers the label it shows: a second 备注 column.
BEIZHU_AGAIN == "beizhu (second column)"

\* the label a column shows in the header
LabelOf(c) == IF c = BEIZHU_AGAIN THEN "beizhu" ELSE c

\* df[columns_to_keep]: for every label of the list, in list order, every
\* column that shows the label
RECURSIVE PickColumns(_, _)
PickColumns(cols, keep) ==
    IF keep = <<>> THEN <<>>
    ELSE SelectSeq(cols, LAMBDA c : LabelOf(c) = Head(keep)) \o PickColumns(cols, Tail(keep))

SelectColumns(df, keep) ==
    LET picked == PickColumns(df.cols, keep)
    IN DataFrame(picked,
                 [r \in DOMAIN df.rows |-> [l \in Range(picked) |-> df.rows[r][l]]])

\* pd.concat([a, b]) of two frames with the same columns
Concat(a, b) == DataFrame(a.cols, a.rows \o b.rows)

(***************************************************************************)
(* Column resolution, shared by the process_* operations                   *)
(***************************************************************************)
\* "for alt_col in alternatives: if alt_col in df.columns: ...; break": the
\* alias the loop stops at, as a set ({} when no alias is in the header)
FirstPresentAliasLast(cols, alternatives) ==
    LET present == {i \in DOMAIN alternatives : alternatives[i] \in cols}
    IN IF present = {} THEN {}
       ELSE {alternatives[CHOOSE i \in present : \A j \in present : j <= i]}

FirstPresentAlias(cols, alternatives) ==
    LET present == {i \in DOMAIN alternatives : alternatives[i] \in cols}
    IN IF present = {} THEN {}
       ELSE {alternatives[CHOOSE i \in present : \A j \in present : i <= j]}

\* column_mapping: for every entry of column_maps whose canonical label is not
\* in the header, the first alias present |-> the canonical label
ColumnMapping(df, column_maps) ==
    LET pairs == UNION {{<<a, column_maps[i].col>> :
                            a \in FirstPresentAlias(Columns(df), column_maps[i].alts)} :
                        i \in {j \in DOMAIN column_maps : column_maps[j].col \notin Columns(df)}}
    IN [a \in {q[1] : q \in pairs} |-> (CHOOSE q \in pairs : q[1] = a)[2]]

\* missing_columns = [col for col in required_columns if col not in df.columns]
MissingColumns(df, required_columns) ==
    {required_columns[i] : i \in {j \in DOMAIN required_columns :
                                      required_columns[j] \notin Columns(df)}}

\* the alias pass of the bucketed operations: only when something is missing
ResolveRequired(df, required_columns, column_maps) ==
    IF MissingColumns(df, required_columns) # {}
    THEN Rename(df, ColumnMapping(df, column_maps))
    ELSE df

\* "for col in [...]: if col not in df.columns: df[col] = ''"
RECURSIVE AddEmptyColumns(_, _)
AddEmptyColumns(df, cols) ==
    IF cols = <<>> THEN df
    ELSE AddEmptyColumns(
             IF Head(cols) \in Columns(df) THEN df
             ELSE SetColumn(df, Head(cols), LAMBDA r : Str(<<>>)),
             Tail(cols))

(***************************************************************************)
(* Subtotal filters                                                        *)
(***************************************************************************)
\* possible_contract_columns: 合同号, 合同, 合同编号, 合同序号, 编号
possible_contract_columns ==
    <<"hetonghao", "hetong", "hetongbianhao", "hetongxuhao", "bianhao">>

\* a scan that knows 合计 alone
NotTotalLabel(c) == ~Contains(ToStr(c), HEJI)

\* ~df[col].astype(str).str.contains('合计|小计', na=False)
NotSubtotalLabel(c) == ~(Contains(ToStr(c), HEJI) \/ Contains(ToStr(c), XIAOJI))

\* a filter that scans the label for 合计 and 小计 with a contract column too
ContractFilterAlsoScans(df) ==
    LET contract_column == FirstPresentAlias(Columns(df), possible_contract_columns)
        label == IF "jingyingdanwei" \in Columns(df) THEN "jingyingdanwei" ELSE df.cols[1]
    IN IF contract_column = {}
       THEN FilterRows(df, LAMBDA r : NotSubtotalLabel(r[label]))
       ELSE FilterRows(df, LAMBDA r : /\ ~isna(r[CHOOSE c \in contract_column : TRUE])
                                      /\ NotSubtotalLabel(r[label]))

\* the first step of process_overdue_payment and process_overdue_delivery:
\* keep the rows whose contract cell is not NaN; without a contract column,
\* drop the rows whose 经营单位 (else first column) text holds 合计 or 小计
ContractFilter(df) ==
    LET contract_column == FirstPresentAlias(Columns(df), possible_contract_columns)
    IN IF contract_column = {}
       THEN IF "jingyingdanwei" \in Columns(df)
            THEN FilterRows(df, LAMBDA r : NotSubtotalLabel(r["jingyingdanwei"]))
            ELSE FilterRows(df, LAMBDA r : NotSubtotalLabel(r[df.cols[1]]))
       ELSE FilterRows(df, LAMBDA r : ~isna(r[CHOOSE c \in contract_column : TRUE]))

\* rows whose 二级部门 holds 启宏实业 get 客户 = 启宏实业 (process_overdue_payment)
QihongRule(df) ==
    IF "erjibumen" \in Columns(df) /\ "kehu" \in Columns(df)
    THEN SetColumn(df, "kehu",
                   LAMBDA r : IF Contains(ToStr(r["erjibumen"]), QIHONG)
                              THEN Str(QIHONG) ELSE r["kehu"])
    ELSE df

(***************************************************************************)
(* Categorizer, Aggregator, ThresholdBucketizer                            *)
(***************************************************************************)
\* a condition that knows the first control-cargo code alone
IsControlCargoFirstCode(r) == r["yuqishiyou"] = Str(KONGHUO_YUQI)

\* control_cargo_conditions of one row
IsControlCargo(r) ==
    r["yuqishiyou"] = Str(KONGHUO_YUQI) \/ r["yuqishiyou"] = Str(YICHUYUN)

\* the two derived columns: 控货类业务逾期金额 and 授信类业务逾期金额
Categorize(df) ==
    LET a == SetColumn(df, "konghuolei",
                       LAMBDA r : IF IsControlCargo(r) THEN r["jine/wanyuan"] ELSE Num(0))
    IN SetColumn(a, "shouxinlei",
                 LAMBDA r : IF ~IsControlCargo(r) THEN r["jine/wanyuan"] ELSE Num(0))

\* the key of a row under groupby(keys)
KeyOf(r, keys) == [i \in DOMAIN keys |-> r[keys[i]]]

\* the order groupby(keys, sort=False) would yield: each key where first seen
GroupOrderFirstSeen(rows, keys) ==
    LET first(k) == CHOOSE i \in DOMAIN rows :
                        KeyOf(rows[i], keys) = k
                        /\ \A j \in 1..(i - 1) : KeyOf(rows[j], keys) # k
        idx == {i \in DOMAIN rows : first(KeyOf(rows[i], keys)) = i}
        RECURSIVE up(_)
        up(S) == IF S = {} THEN <<>>
                 ELSE LET m == CHOOSE i \in S : \A j \in S : i <= j
                      IN <<KeyOf(rows[m], keys)>> \o up(S \ {m})
    IN up(idx)

\* the order in which groupby(keys) yields its groups: sort=True, so ascending
GroupOrder(rows, keys) == SortKeys({KeyOf(rows[i], keys) : i \in DOMAIN rows})

\* df.groupby(keys).agg(aggregations).reset_index(): rows with a NaN key cell
\* are left out (dropna=True); one row per key; the key columns first, then
\* the aggregated columns in the order of the aggregations
Aggregate(df, keys, aggregations, h) ==
    LET rows == SelectSeq(df.rows, LAMBDA r : \A i \in DOMAIN keys : ~isna(r[keys[i]]))
        order == GroupOrder(rows, keys)
        group(k) == SelectSeq(rows, LAMBDA r : KeyOf(r, keys) = k)
        values(k, c) == [i \in DOMAIN group(k) |-> group(k)[i][c]]
        outcols == keys \o [i \in DOMAIN aggregations |-> aggregations[i].col]
        reducer(c) == (CHOOSE i \in DOMAIN aggregations : aggregations[i].col = c)
        keyidx(c) == CHOOSE i \in DOMAIN keys : keys[i] = c
        outrow(k) == [c \in Range(outcols) |->
                         IF c \in Range(keys) THEN k[keyidx(c)]
                         ELSE IF aggregations[reducer(c)].fn = "text"
                              THEN combine_text_values(values(k, c), h)
                              ELSE sum_numeric_values(values(k, c))]
    IN DataFrame(outcols, [i \in DOMAIN order |-> outrow(order[i])])

\* an exception escaped from a reducer
HasRaised(df) == \E i \in DOMAIN df.rows : \E c \in Columns(df) : df.rows[i][c].k = "err"

\* customer_amounts[entity]: the entity's amount summed over all of its rows
EntityTotal(df, entity_col, amount_col, e) ==
    NumericSum(Column(FilterRows(df, LAMBDA r : r[entity_col] = e), amount_col))

\* a comparison that files an entity exactly at the threshold as small
IsLargeStrict(total, threshold) == total > threshold

\* customer_amounts >= threshold
IsLarge(total, threshold) == total >= threshold

\* large_customers
LargeEntities(df, entity_col, amount_col, threshold) ==
    {e \in Range(Column(df, entity_col)) :
        IsLarge(EntityTotal(df, entity_col, amount_col, e), threshold)}

\* small_df after "small_df[entity] = '其他'" and "small_df[col] = '见明细表'"
RECURSIVE MarkSeeDetail(_, _)
MarkSeeDetail(df, columns_to_modify) ==
    IF columns_to_modify = <<>> THEN df
    ELSE MarkSeeDetail(
             IF Head(columns_to_modify) \in Columns(df)
             THEN SetColumn(df, Head(columns_to_modify), LAMBDA r : Str(SEE_DETAIL))
             ELSE df,
             Tail(columns_to_modify))

\* grouped_df after pd.to_numeric on the amount column
CoerceAmount(grouped_df, amount_col) ==
    SetColumn(grouped_df, amount_col, LAMBDA r : to_numeric(r[amount_col]))

\* a bucketing step that forgets the collapsed rows
BucketizeLargeOnly(grouped_df, cfg, threshold, h) ==
    LET large_customers == LargeEntities(grouped_df, cfg.entity, cfg.amount, threshold)
    IN FilterRows(grouped_df, LAMBDA r : r[cfg.entity] \in large_customers)

\* step 5 of the bucketed operations, from the coerced grouped_df to final_df
Bucketize(grouped_df, cfg, threshold, h) ==
    LET large_customers == LargeEntities(grouped_df, cfg.entity, cfg.amount, threshold)
        large_df == FilterRows(grouped_df, LAMBDA r : r[cfg.entity] \in large_customers)
        small_df == FilterRows(grouped_df, LAMBDA r : r[cfg.entity] \notin large_customers)
        renamed == MarkSeeDetail(SetColumn(small_df, cfg.entity, LAMBDA r : Str(QITA)),
                                 cfg.columns_to_modify)
        small_df_agg == Aggregate(renamed, cfg.keys, cfg.aggregations, h)
    IN IF small_df.rows # <<>> THEN Concat(large_df, small_df_agg) ELSE large_df

Failed == [ok |-> FALSE, df |-> DataFrame(<<>>, <<>>)]

\* grouped_df of a bucketed operation: the frame after the required-column
\* check, categorization, optional columns, column selection, groupby/agg and
\* the coercion of the amount column
GroupedFrame(df, cfg, h) ==
    LET categorized == IF cfg.categorize THEN Categorize(df) ELSE df
        df_simplified == SelectColumns(AddEmptyColumns(categorized, cfg.optional),
                                       cfg.columns_to_keep)
    IN CoerceAmount(Aggregate(df_simplified, cfg.keys, cfg.aggregations, h), cfg.amount)

\* the common part of the bucketed operations, after the subtotal filter:
\* [ok |-> what the operation returns, df |-> final_df]
BucketedTable(filtered, cfg, threshold, h) ==
    LET df == ResolveRequired(filtered, cfg.required_columns, cfg.column_maps)
    IN IF MissingColumns(df, cfg.required_columns) # {} THEN Failed
       ELSE LET grouped_df == GroupedFrame(df, cfg, h)
            IN IF HasRaised(grouped_df) THEN Failed
               ELSE LET final_df == Bucketize(grouped_df, cfg, threshold, h)
                    IN IF HasRaised(final_df) THEN Failed
                       ELSE [ok |-> TRUE, df |-> final_df]

(***************************************************************************)
(* The three bucketed operations                                           *)
(***************************************************************************)
Entry(col, alts) == [col |-> col, alts |-> alts]
Agg(col, fn) == [col |-> col, fn |-> fn]

\* table names: 一、逾期还款业务 / 二、付款逾期未到货(1) / 八、现货敞口90天及以上库存
OVERDUE_PAYMENT == "1.yuqihuankuanyewu"
OVERDUE_DELIVERY == "2.fukuanyuqiweidaohuo(1)"
INVENTORY == "8.xianhuochangkou90tianjiyishangkucun"

\* process_overdue_payment's column lists
PaymentCfg ==
    [required_columns |->
        \* 逾期事由, 金额/万元, 板群, 经营单位, 客户, 产品
        <<"yuqishiyou", "jine/wanyuan", "banqun", "jingyingdanwei", "kehu", "chanpin">>,
     column_maps |->
        <<Entry("yuqishiyou", <<"yuqiyuanyin", "shiyou", "yuanyin">>),
          \* 金额, 金额(万元), 金额（万元）, 逾期金额, 逾期金额/万元
          Entry("jine/wanyuan", <<"jine", "jine(wanyuan)", "jine(wanyuan)quanjiao",
                                  "yuqijine", "yuqijine/wanyuan">>),
          Entry("banqun", <<"fenbanqun", "yewubanqun">>),
          Entry("jingyingdanwei", <<"jingyingdanweimingcheng", "danwei", "bumen">>),
          Entry("kehu", <<"kehumingcheng", "kehuming", "gouhuodanwei">>),
          Entry("chanpin", <<"chanpinmingcheng", "pinming", "huowu">>)>>,
     categorize |-> TRUE,
     \* 本周还款计划, 集团在手(万元), 集团占用(万元)
     optional |-> <<"benzhouhuankuanjihua", "jituanzaishou", "jituanzhanyong">>,
     columns_to_keep |->
        <<"banqun", "jingyingdanwei", "kehu", "chanpin", "jine/wanyuan", "konghuolei",
          "shouxinlei", "benzhouhuankuanjihua", "jituanzaishou", "jituanzhanyong">>,
     keys |-> <<"banqun", "jingyingdanwei", "kehu">>,
     entity |-> "kehu",
     amount |-> "jine/wanyuan",
     aggregations |->
        <<Agg("chanpin", "text"), Agg("jine/wanyuan", "sum"), Agg("konghuolei", "sum"),
          Agg("shouxinlei", "sum"), Agg("benzhouhuankuanjihua", "text"),
          Agg("jituanzaishou", "text"), Agg("jituanzhanyong", "text")>>,
     columns_to_modify |->
        <<"chanpin", "benzhouhuankuanjihua", "jituanzaishou", "jituanzhanyong">>]

\* process_overdue_delivery's column lists (供应商 for 客户, 本周到货计划)
DeliveryCfg ==
    [required_columns |->
        <<"yuqishiyou", "jine/wanyuan", "banqun", "jingyingdanwei", "gongyingshang",
          "chanpin">>,
     column_maps |->
        <<Entry("yuqishiyou", <<"yuqiyuanyin", "shiyou", "yuanyin">>),
          Entry("jine/wanyuan", <<"jine", "jine(wanyuan)", "jine(wanyuan)quanjiao",
                                  "yuqijine", "yuqijine/wanyuan">>),
          Entry("banqun", <<"fenbanqun", "yewubanqun">>),
          Entry("jingyingdanwei", <<"jingyingdanweimingcheng", "danwei", "bumen">>),
          \* 供应商名称, 供应商名, 供货单位
          Entry("gongyingshang", <<"gongyingshangmingcheng", "gongyingshangming",
                                   "gonghuodanwei">>),
          Entry("chanpin", <<"chanpinmingcheng", "pinming", "huowu">>)>>,
     categorize |-> TRUE,
     optional |-> <<"benzhoudaohuojihua", "jituanzaishou", "jituanzhanyong">>,
     columns_to_keep |->
        <<"banqun", "jingyingdanwei", "gongyingshang", "chanpin", "jine/wanyuan",
          "konghuolei", "shouxinlei", "benzhoudaohuojihua", "jituanzaishou",
          "jituanzhanyong">>,
     keys |-> <<"banqun", "jingyingdanwei", "gongyingshang">>,
     entity |-> "gongyingshang",
     amount |-> "jine/wanyuan",
     aggregations |->
        <<Agg("chanpin", "text"), Agg("jine/wanyuan", "sum"), Agg("konghuolei", "sum"),
          Agg("shouxinlei", "sum"), Agg("benzhoudaohuojihua", "text"),
          Agg("jituanzaishou", "text"), Agg("jituanzhanyong", "text")>>,
     columns_to_modify |->
        <<"chanpin", "benzhoudaohuojihua", "jituanzaishou", "jituanzhanyong">>]

\* process_inventory's column lists; 本周处理计划 is in required_columns
InventoryCfg ==
    [required_columns |->
        \* 板群, 经营单位, 库存地点, 产品, 库存/万元, 本周处理计划
        <<"banqun", "jingyingdanwei", "kucundidian", "chanpin", "kucun/wanyuan",
          "benzhouchulijihua">>,
     column_maps |->
        <<Entry("banqun", <<"fenbanqun", "yewubanqun">>),
          Entry("jingyingdanwei", <<"jingyingdanweimingcheng", "danwei", "bumen">>),
          \* 存放地点, 仓库, 仓储地点, 存储地点
          Entry("kucundidian", <<"cunfangdidian", "cangku", "cangchudidian",
                                 "cunchudidian">>),
          \* 品名, 货物, 产品名称, 商品
          Entry("chanpin", <<"pinming", "huowu", "chanpinmingcheng", "shangpin">>),
          \* 金额/万元, 金额, 库存金额, 库存金额/万元, 库存额, 库存额/万元
          Entry("kucun/wanyuan", <<"jine/wanyuan", "jine", "kucunjine",
                                   "kucunjine/wanyuan", "kucune", "kucune/wanyuan">>),
          \* 处理计划, 本周计划, 计划
          Entry("benzhouchulijihua", <<"chulijihua", "benzhoujihua", "jihua">>)>>,
     categorize |-> FALSE,
     optional |-> <<"benzhouchulijihua">>,
     columns_to_keep |->
        <<"banqun", "jingyingdanwei", "kucundidian", "chanpin", "kucun/wanyuan",
          "benzhouchulijihua">>,
     keys |-> <<"banqun", "jingyingdanwei", "kucundidian">>,
     entity |-> "kucundidian",
     amount |-> "kucun/wanyuan",
     aggregations |->
        <<Agg("chanpin", "text"), Agg("kucun/wanyuan", "sum"),
          Agg("benzhouchulijihua", "text")>>,
     columns_to_modify |-> <<"chanpin", "benzhouchulijihua">>]

\* the subtotal filter of process_inventory: rows whose 产品 (else the first
\* of 品名, 货物, 产品名称, 商品 present, then renamed 产品) is not NaN
ProductFilter(df) ==
    LET product_column ==
            FirstPresentAlias(Columns(df), <<"pinming", "huowu", "chanpinmingcheng",
                                             "shangpin">>)
    IN IF "chanpin" \in Columns(df)
       THEN FilterRows(df, LAMBDA r : ~isna(r["chanpin"]))
       ELSE IF product_column = {} THEN df
       ELSE LET col == CHOOSE c \in product_column : TRUE
            IN Rename(FilterRows(df, LAMBDA r : ~isna(r[col])),
                      [c \in {col} |-> "chanpin"])

\* what each bucketed operation computes from its raw table
OverduePayment(table, threshold, h) ==
    BucketedTable(QihongRule(ContractFilter(table)), PaymentCfg, threshold, h)

OverdueDelivery(table, threshold, h) ==
    BucketedTable(ContractFilter(table), DeliveryCfg, threshold, h)

Inventory(table, threshold, h) ==
    BucketedTable(ProductFilter(table), InventoryCfg, threshold, h)

\* a store that appends the rows to those of the entry it finds
PutAppended(dict, name, df) ==
    [n \in DOMAIN dict \cup {name} |->
        IF n # name THEN dict[n]
        ELSE IF name \in DOMAIN dict /\ dict[name].cols = df.cols
             THEN [cols |-> df.cols, rows |-> dict[name].rows \o df.rows]
             ELSE df]

\* dict[name] = df
Put(dict, name, df) ==
    [n \in DOMAIN dict \cup {name} |-> IF n = name THEN df ELSE dict[n]]

\* "table is None or len(table) == 0"
Unavailable(dict, name) == name \notin DOMAIN dict \/ dict[name].rows = <<>>

\* what a call leaves to see: the operation, its table, whether it returned
\* True and, as in the status line of the application, the threshold of a
\* successful call
Returned(op, name, threshold, ok) ==
    [op |-> op, table |-> name, threshold |-> IF ok THEN threshold ELSE 0, ok |-> ok]

\* the thresholds an operator enters
Thresholds == {2, 3}

\* a tail that stores the frame it was given before looking at the outcome
FinishAlwaysStores(op, name, threshold, out) ==
    /\ processed_tables' = Put(processed_tables, name, out.df)
    /\ ret' = Returned(op, name, threshold, out.ok)
    /\ export_button' = (export_button \/ out.ok)
    /\ UNCHANGED <<tables, deposit_tables, future_tables, hashseed, series, reduced,
                   threshold_input, app_threshold, workbook>>

\* the tail of every process_* operation: store and return True, or return
\* False and leave processed_tables alone; the handler of the application
\* enables the export button when the operation returned True
Finish(op, name, threshold, out) ==
    /\ processed_tables' = IF out.ok THEN Put(processed_tables, name, out.df)
                           ELSE processed_tables
    /\ ret' = Returned(op, name, threshold, out.ok)
    /\ export_button' = (export_button \/ out.ok)
    /\ UNCHANGED <<tables, deposit_tables, future_tables, hashseed, series, reduced,
                   threshold_input, app_threshold, workbook>>

process_overdue_payment ==
    \E threshold \in Thresholds :
        Finish("process_overdue_payment", OVERDUE_PAYMENT, threshold,
               IF Unavailable(tables, OVERDUE_PAYMENT) THEN Failed
               ELSE OverduePayment(tables[OVERDUE_PAYMENT], threshold, hashseed))

process_overdue_delivery ==
    \E threshold \in Thresholds :
        Finish("process_overdue_delivery", OVERDUE_DELIVERY, threshold,
               IF Unavailable(tables, OVERDUE_DELIVERY) THEN Failed
               ELSE OverdueDelivery(tables[OVERDUE_DELIVERY], threshold, hashseed))

process_inventory ==
    \E threshold \in Thresholds :
        Finish("process_inventory", INVENTORY, threshold,
               IF Unavailable(tables, INVENTORY) THEN Failed
               ELSE Inventory(tables[INVENTORY], threshold, hashseed))

(***************************************************************************)
(* The filter-only operations                                              *)
(***************************************************************************)
\* table names: 保证金比例低于合同约定比例 / 未约定收保证金的锁定业务价格倒挂情况 /
\* 汇总表（事业部及以上领导见本汇总表即可）
DEPOSIT_RATIO == "baozhengjinbilidiyuheyueyuedingbili"
DEPOSIT_INVERSION == "weiyuedingshoubaozhengjindesuodingyewujiagedaogua"
FUTURE_SUMMARY == "huizongbiao"

\* required_columns of the two deposit operations: 经营单位, 客户名称, 商品,
\* 实际保证金比例, 补至0% 需追加 （万元）, 补至10%需追加 （万元，...）,
\* 在手业务金额（万元）, 备注
DepositRequired ==
    <<"jingyingdanwei", "kehumingcheng", "shangpin", "shijibaozhengjinbili",
      "buzhi0% xuzhuijia (wanyuan)", "buzhi10%xuzhuijia (wanyuan, ...)",
      "zaishouyewujine(wanyuan)", "beizhu">>

DepositColumnMaps ==
    <<Entry("jingyingdanwei", <<"jingyingdanweimingcheng", "danwei", "bumen">>),
      \* 客户, 客户名, 企业名称, 购货单位
      Entry("kehumingcheng", <<"kehu", "kehuming", "qiyemingcheng", "gouhuodanwei">>),
      \* 产品, 品名, 货物, 产品名称
      Entry("shangpin", <<"chanpin", "pinming", "huowu", "chanpinmingcheng">>),
      \* 保证金比例, 实际比例, 保证金
      Entry("shijibaozhengjinbili", <<"baozhengjinbili", "shijibili", "baozhengjin">>),
      \* 补至0%需追加, 补至0%, 0%追加额, 追加金额
      Entry("buzhi0% xuzhuijia (wanyuan)",
            <<"buzhi0%xuzhuijia", "buzhi0%", "0%zhuijiae", "zhuijiajine">>),
      \* 补至10%需追加, 补至10%, 10%追加额
      Entry("buzhi10%xuzhuijia (wanyuan, ...)",
            <<"buzhi10%xuzhuijia", "buzhi10%", "10%zhuijiae">>),
      \* 在手金额, 业务金额, 在手业务, 合同金额, 在手合同金额
      Entry("zaishouyewujine(wanyuan)",
            <<"zaishoujine", "yewujine", "zaishouyewu", "hetongjine",
              "zaishouhetongjine">>),
      \* 说明, 注释, 附注
      Entry("beizhu", <<"shuoming", "zhushi", "fuzhu">>)>>

\* the subtotal filter of the deposit operations: rows whose 客户名称 (else
\* the first of 客户, 客户名, 企业名称, 购货单位 present, then renamed) is not NaN
CustomerFilter(df) ==
    LET customer_cols ==
            FirstPresentAlias(Columns(df), <<"kehu", "kehuming", "qiyemingcheng",
                                             "gouhuodanwei">>)
    IN IF "kehumingcheng" \in Columns(df)
       THEN FilterRows(df, LAMBDA r : ~isna(r["kehumingcheng"]))
       ELSE IF customer_cols = {} THEN df
       ELSE LET col == CHOOSE c \in customer_cols : TRUE
            IN Rename(FilterRows(df, LAMBDA r : ~isna(r[col])),
                      [c \in {col} |-> "kehumingcheng"])

\* a comparison that keeps a value equal to the threshold
KeepsGreaterOrEqual(c, threshold) == to_numeric(c).k = "num" /\ to_numeric(c).n >= threshold

\* df_simplified[filter_col] > threshold, after pd.to_numeric
KeepsGreater(c, threshold) == to_numeric(c).k = "num" /\ to_numeric(c).n > threshold

\* df_simplified[filter_col] < threshold, after pd.to_numeric
KeepsLess(c, threshold) == to_numeric(c).k = "num" /\ to_numeric(c).n < threshold

\* rename by alias, add every column still missing as '', keep the fixed list
ResolveOrAdd(df, required_columns, column_maps) ==
    SelectColumns(AddEmptyColumns(Rename(df, ColumnMapping(df, column_maps)),
                                  required_columns),
                  required_columns)

\* process_deposit_ratio and process_deposit_inversion, from the raw table
DepositTable(table, threshold) ==
    LET df_simplified == ResolveOrAdd(CustomerFilter(table), DepositRequired,
                                      DepositColumnMaps)
        filter_col == "buzhi0% xuzhuijia (wanyuan)"
        coerced == SetColumn(df_simplified, filter_col, LAMBDA r : to_numeric(r[filter_col]))
    IN [ok |-> TRUE,
        df |-> FilterRows(coerced, LAMBDA r : KeepsGreater(r[filter_col], threshold))]

\* a fill that hands down the first value of the column, not the last one
RECURSIVE FillDownFirst(_, _, _)
FillDownFirst(cells, have, last_valid_value) ==
    IF cells = <<>> THEN <<>>
    ELSE LET c == Head(cells)
             valid == ~isna(c) /\ strip(ToStr(c)) # <<>>
         IN <<IF valid \/ ~have THEN c ELSE last_valid_value>>
            \o FillDownFirst(Tail(cells), have \/ valid,
                             IF valid /\ ~have THEN c ELSE last_valid_value)

\* the merged-cell fill of process_future_summary: a cell that is NaN or blank
\* takes the last value above it that is neither
RECURSIVE FillDown(_, _, _)
FillDown(cells, have, last_valid_value) ==
    IF cells = <<>> THEN <<>>
    ELSE LET c == Head(cells)
             valid == ~isna(c) /\ strip(ToStr(c)) # <<>>
         IN <<IF valid \/ ~have THEN c ELSE last_valid_value>>
            \o FillDown(Tail(cells), have \/ valid, IF valid THEN c ELSE last_valid_value)

FillColumn(df, col) ==
    LET filled == FillDown(Column(df, col), FALSE, NaN)
    IN DataFrame(df.cols,
                 [i \in DOMAIN df.rows |-> [df.rows[i] EXCEPT ![col] = filled[i]]])

\* step 1 of process_future_summary: rows whose 部门 (else 经营单位, 单位,
\* else the first column) is not NaN
DeptFilter(df) ==
    LET dept_col == FirstPresentAlias(Columns(df), <<"bumen", "jingyingdanwei", "danwei">>)
        col == IF dept_col = {} THEN df.cols[1] ELSE CHOOSE c \in dept_col : TRUE
    IN FilterRows(df, LAMBDA r : ~isna(r[col]))

\* step 2 of process_future_summary: fill 类型, or the first of 业务类型,
\* 品种类型, 种类 present, which is then renamed 类型
FillType(df) ==
    LET type_cols ==
            FirstPresentAlias(Columns(df), <<"yewuleixing", "pinzhongleixing", "zhonglei">>)
    IN IF "leixing" \in Columns(df) THEN FillColumn(df, "leixing")
       ELSE IF type_cols = {} THEN df
       ELSE LET col == CHOOSE c \in type_cols : TRUE
            IN Rename(FillColumn(df, col), [c \in {col} |-> "leixing"])

\* 部门, 供应商/客户, 类型, 履约风险值（元）, 备注
FutureColumns ==
    <<"bumen", "gongyingshang/kehu", "leixing", "lvyuefengxianzhi(yuan)", "beizhu">>

FutureColumnMaps ==
    <<\* 经营单位, 单位, 部门名称
      Entry("bumen", <<"jingyingdanwei", "danwei", "bumenmingcheng">>),
      \* 供应商, 客户, 客户名称, 供应商名称
      Entry("gongyingshang/kehu",
            <<"gongyingshang", "kehu", "kehumingcheng", "gongyingshangmingcheng">>),
      Entry("leixing", <<"yewuleixing", "pinzhongleixing", "zhonglei">>),
      \* 风险值, 风险值（元）, 风险金额, 风险金额（元）
      Entry("lvyuefengxianzhi(yuan)",
            <<"fengxianzhi", "fengxianzhi(yuan)", "fengxianjine", "fengxianjine(yuan)">>),
      Entry("beizhu", <<"shuoming", "zhushi", "fuzhu">>)>>

\* process_future_summary, from the raw table
FutureSummary(table, threshold) ==
    LET df_simplified == ResolveOrAdd(FillType(DeptFilter(table)), FutureColumns,
                                      FutureColumnMaps)
        filter_col == "lvyuefengxianzhi(yuan)"
        coerced == SetColumn(df_simplified, filter_col, LAMBDA r : to_numeric(r[filter_col]))
    IN [ok |-> TRUE,
        df |-> FilterRows(coerced, LAMBDA r : KeepsLess(r[filter_col], threshold))]

process_deposit_ratio ==
    \E threshold \in Thresholds :
        Finish("process_deposit_ratio", DEPOSIT_RATIO, threshold,
               IF Unavailable(deposit_tables, DEPOSIT_RATIO) THEN Failed
               ELSE DepositTable(deposit_tables[DEPOSIT_RATIO], threshold))

process_deposit_inversion ==
    \E threshold \in Thresholds :
        Finish("process_deposit_inversion", DEPOSIT_INVERSION, threshold,
               IF Unavailable(deposit_tables, DEPOSIT_INVERSION) THEN Failed
               ELSE DepositTable(deposit_tables[DEPOSIT_INVERSION], threshold))

process_future_summary ==
    \E threshold \in Thresholds :
        Finish("process_future_summary", FUTURE_SUMMARY, threshold,
               IF Unavailable(future_tables, FUTURE_SUMMARY) THEN Failed
               ELSE FutureSummary(future_tables[FUTURE_SUMMARY], threshold))

(***************************************************************************)
(* ThresholdInputDialog                                                    *)
(***************************************************************************)
PLUS == 43

\* float('inf') and float('-inf'): n is the sign
Inf(sign) == [k |-> "inf", n |-> sign, s |-> <<>>]

\* str.lower() of one character
Lower(c) == IF c >= 65 /\ c <= 90 THEN c + 32 ELSE c

\* float(text): blanks around the text are dropped, a sign may lead, and what
\* is left is a string of decimal digits, or inf, infinity or nan in any
\* case; anything else raises ValueError.  (Decimal points, exponents and
\* underscores are not modelled: no text of the model holds one.)
float(text) ==
    LET t == strip(text)
        signed == t # <<>> /\ Head(t) \in {MINUS, PLUS}
        sign == IF signed /\ Head(t) = MINUS THEN -1 ELSE 1
        d == IF signed THEN Tail(t) ELSE t
        word == [i \in DOMAIN d |-> Lower(d[i])]
    IN IF d # <<>> /\ \A i \in DOMAIN d : IsDigit(d[i]) THEN Num(sign * DigitsValue(d))
       ELSE IF word \in {<<105, 110, 102>>, <<105, 110, 102, 105, 110, 105, 116, 121>>}
            THEN Inf(sign)
       ELSE IF word = <<110, 97, 110>> THEN NaN
       ELSE Raised

\* ThresholdInputDialog.get_threshold: float(text), 3000.0 on ValueError
get_threshold(text) ==
    IF float(text) = Raised THEN Num(3000) ELSE float(text)

\* no file is selected: self.file_path is None
NoFile == [sheet \in {} |-> <<>>]

\* no dialog is open; ExcelProcessorApp.threshold is 3000.0
NoDialog == threshold_input = <<>> /\ app_threshold = Num(3000)

(***************************************************************************)
(* Workbooks of the bucketed specification                                 *)
(***************************************************************************)
MaxRows == 2

\* every sequence over S of length at most n
RECURSIVE SeqsUpTo(_, _)
SeqsUpTo(S, n) ==
    IF n = 0 THEN {<<>>}
    ELSE LET shorter == SeqsUpTo(S, n - 1)
         IN shorter \cup {Append(t, x) : t \in {u \in shorter : Len(u) = n - 1}, x \in S}

TextA == <<65>>          \* 'A'
TextB == <<66>>          \* 'B'
TextU1 == <<85, 49>>     \* 'U1'
TextU2 == <<85, 50>>     \* 'U2'
TextG == <<71>>          \* 'G'
TextP == <<112>>         \* 'p'
TextQ == <<113>>         \* 'q'
TextX == <<120>>         \* 'x'
Text12 == <<49, 50>>     \* '12'

\* source rows with clean amounts: 经营单位 x entity x amount, one entity
\* being named 其他 in the source; the product follows the amount and the
\* reason code follows the 经营单位
KeyRows ==
    {[unit |-> Str(u), entity |-> Str(e), amount |-> Num(a),
      product |-> Str(IF a = 1 THEN TextP ELSE TextQ),
      reason |-> Str(IF u = TextU1 THEN KONGHUO_YUQI ELSE TextX)] :
        u \in {TextU1, TextU2}, e \in {TextA, QITA}, a \in {1, 2}}

\* source rows with free-form amount cells: a number, a blank, a word, digits
\* typed as text; two ordinary entities of one 经营单位, and one row whose
\* entity cell is blank
MessyRows ==
    {[unit |-> Str(TextU1), entity |-> Str(e), amount |-> a,
      product |-> Str(TextP),
      reason |-> Str(IF e = TextA THEN YICHUYUN ELSE TextX)] :
        e \in {TextA, TextB}, a \in {Num(2), NaN, Str(TextX), Str(Text12)}}
    \cup {[unit |-> Str(TextU1), entity |-> NaN, amount |-> Num(2),
           product |-> Str(TextP), reason |-> Str(TextX)]}

Row(cols, cells) == [c \in Range(cols) |-> cells[CHOOSE i \in DOMAIN cols : cols[i] = c]]

\* the raw table of one bucketed operation holding the given source rows
BucketedSource(name, rows) ==
    LET cols ==
            CASE name = OVERDUE_PAYMENT ->
                   <<"hetonghao", "banqun", "jingyingdanwei", "kehu", "chanpin",
                     "jine/wanyuan", "yuqishiyou">>
              [] name = OVERDUE_DELIVERY ->
                   <<"hetonghao", "banqun", "jingyingdanwei", "gongyingshang", "chanpin",
                     "jine/wanyuan", "yuqishiyou">>
              [] OTHER ->
                   <<"benzhouchulijihua", "banqun", "jingyingdanwei", "kucundidian",
                     "chanpin", "kucun/wanyuan", "beizhu">>
    IN DataFrame(cols,
                 [i \in DOMAIN rows |->
                     Row(cols, <<Str(TextX), Str(TextG), rows[i].unit, rows[i].entity,
                                 rows[i].product, rows[i].amount, rows[i].reason>>)])

BucketedNames == {OVERDUE_PAYMENT, OVERDUE_DELIVERY, INVENTORY}

NoTables == [n \in {} |-> DataFrame(<<>>, <<>>)]

Idle == Returned("none", "", 0, TRUE)

InitBucket ==
    /\ \E name \in BucketedNames :
       \E rows \in SeqsUpTo(KeyRows, MaxRows) \cup SeqsUpTo(MessyRows, MaxRows) :
           \* an empty table, or one with at least one row that has an entity
           /\ rows = <<>> \/ \E i \in DOMAIN rows : ~isna(rows[i].entity)
           /\ tables = [n \in {name} |-> BucketedSource(name, rows)]
    /\ deposit_tables = NoTables
    /\ future_tables = NoTables
    /\ processed_tables = NoTables
    /\ ret = Idle
    /\ hashseed \in Orders(UNION {NonBlankStrings(Column(tables[n], "chanpin")) :
                                       n \in DOMAIN tables})
    /\ series = <<>>
    /\ reduced = Str(<<>>)
    /\ NoDialog
    /\ export_button = FALSE
    /\ workbook = NoFile

NextBucket ==
    \/ process_overdue_payment
    \/ process_overdue_delivery
    \/ process_inventory

SpecBucket == InitBucket /\ [][NextBucket]_vars

(***************************************************************************)
(* Properties of the bucketed operations, checked under SpecBucket         *)
(***************************************************************************)
\* the last call was a bucketed operation that returned True
BucketedDone == ret.ok /\ ret.table \in BucketedNames

LastCfg ==
    CASE ret.table = OVERDUE_PAYMENT -> PaymentCfg
      [] ret.table = OVERDUE_DELIVERY -> DeliveryCfg
      [] OTHER -> InventoryCfg

\* the rows the last call aggregated: its table after the subtotal filter
LastFiltered ==
    LET table == tables[ret.table]
        filtered == CASE ret.table = OVERDUE_PAYMENT -> QihongRule(ContractFilter(table))
                      [] ret.table = OVERDUE_DELIVERY -> ContractFilter(table)
                      [] OTHER -> ProductFilter(table)
    IN ResolveRequired(filtered, LastCfg.required_columns, LastCfg.column_maps)

\* the aggregated rows that entered the bucketing step of the last call
LastGrouped == GroupedFrame(LastFiltered, LastCfg, hashseed)

\* the table the last call stored
LastFinal == processed_tables[ret.table]

\* the amount of an entity summed over the aggregated rows, a blank as 0
TotalOf(e) ==
    NumericSum(Column(FilterRows(LastGrouped, LAMBDA r : r[LastCfg.entity] = e),
                      LastCfg.amount))

\* the aggregated rows of the entities whose total is below the threshold
SmallRows ==
    FilterRows(LastGrouped, LAMBDA r : TotalOf(r[LastCfg.entity]) < ret.threshold).rows

\* the columns reduced by summing, and those reduced by joining text
SumColumns ==
    {LastCfg.aggregations[i].col :
        i \in {j \in DOMAIN LastCfg.aggregations : LastCfg.aggregations[j].fn = "sum"}}

\* C1: after a bucketed operation succeeded, the amount column summed over
\* the stored table equals the amount column summed over the aggregated rows
\* that entered the bucketing step
C1_AmountConserved ==
    BucketedDone =>
        NumericSum(Column(LastFinal, LastCfg.amount))
            = NumericSum(Column(LastGrouped, LastCfg.amount))

\* C1 witness: a successful call whose bucketing collapsed two aggregated
\* rows with amounts into one
C1_Witness ==
    /\ BucketedDone
    /\ Len(SmallRows) >= 2
    /\ Len(LastFinal.rows) < Len(LastGrouped.rows)
    /\ \A i \in DOMAIN SmallRows : SmallRows[i][LastCfg.amount].k = "num"
                                      /\ SmallRows[i][LastCfg.amount].n > 0

SmallRowsOf(board, unit) ==
    SelectSeq(SmallRows, LAMBDA r : r[LastCfg.keys[1]] = board /\ r[LastCfg.keys[2]] = unit)

\* r is the collapsed row of the pair: entity 其他, every summed column the
\* sum over the pair's small rows, every joined column 见明细表
IsCollapsedRow(r, board, unit) ==
    /\ r[LastCfg.keys[1]] = board
    /\ r[LastCfg.keys[2]] = unit
    /\ r[LastCfg.entity] = Str(QITA)
    /\ \A c \in SumColumns :
           r[c] = Num(NumericSum([i \in DOMAIN SmallRowsOf(board, unit) |->
                                     SmallRowsOf(board, unit)[i][c]]))
    /\ \A i \in DOMAIN LastCfg.columns_to_modify :
           r[LastCfg.columns_to_modify[i]] = Str(SEE_DETAIL)

\* C3: for every (板群, 经营单位) pair with an aggregated row of an entity
\* below the threshold, the stored table has exactly one collapsed row (entity
\* 其他, summed columns the sums over those rows, detail columns 见明细表), and
\* no entity below the threshold is stored under a name other than 其他
C3_SmallCollapsed ==
    BucketedDone =>
        /\ \A k \in DOMAIN SmallRows :
               LET board == SmallRows[k][LastCfg.keys[1]]
                   unit == SmallRows[k][LastCfg.keys[2]]
               IN Cardinality({j \in DOMAIN LastFinal.rows :
                                  IsCollapsedRow(LastFinal.rows[j], board, unit)}) = 1
        /\ \A j \in DOMAIN LastFinal.rows :
               TotalOf(LastFinal.rows[j][LastCfg.entity]) < ret.threshold
                   => LastFinal.rows[j][LastCfg.entity] = Str(QITA)

\* every amount cell of every loaded table is a number
AmountsAreNumbers ==
    \A n \in DOMAIN tables : \A i \in DOMAIN tables[n].rows :
        \A c \in {"jine/wanyuan", "kucun/wanyuan"} \cap Columns(tables[n]) :
            tables[n].rows[i][c].k = "num"

\* the statement of C3 on the workbooks whose amount cells are all numbers
C3_SmallCollapsedOfNumbers == AmountsAreNumbers => C3_SmallCollapsed

\* the keys of the rows of a frame, in row order
KeysOf(df) == [i \in DOMAIN df.rows |-> KeyOf(df.rows[i], LastCfg.keys)]

\* the distinct keys of the aggregated source rows, each where first seen
FirstSeenKeys ==
    LET rows == LastFiltered.rows
        firsts == SelectSeq([i \in DOMAIN rows |-> i],
                            LAMBDA i : \A j \in 1..(i - 1) :
                                KeyOf(rows[j], LastCfg.keys) # KeyOf(rows[i], LastCfg.keys))
    IN [n \in DOMAIN firsts |-> KeyOf(rows[firsts[n]], LastCfg.keys)]

Complete(k) == \A i \in DOMAIN k : ~isna(k[i])

AsNumber(c) == IF to_numeric(c).k = "num" THEN to_numeric(c).n ELSE 0

\* the last call was a bucketed operation on a table that has rows and all
\* the required columns
BucketedCalled ==
    /\ ret.table \in BucketedNames
    /\ ~Unavailable(tables, ret.table)
    /\ MissingColumns(LastFiltered, LastCfg.required_columns) = {}

\* C5: the numeric reducer never makes the operation fail, and the amount of
\* every aggregated row is the number obtained by adding the group's amount
\* cells with every blank or non-numeric cell as 0
C5_SumCountsNonNumbersAsZero ==
    BucketedCalled =>
        /\ ret.ok
        /\ \A i \in DOMAIN LastGrouped.rows :
               LET k == KeyOf(LastGrouped.rows[i], LastCfg.keys)
                   group == SelectSeq(LastFiltered.rows,
                                      LAMBDA r : KeyOf(r, LastCfg.keys) = k)
               IN LastGrouped.rows[i][LastCfg.amount]
                      = Num(NumericSum([n \in DOMAIN group |->
                                           Num(AsNumber(group[n][LastCfg.amount]))]))

(***************************************************************************)
(* The reducers on their own: one group's cells, reduced                   *)
(***************************************************************************)
MaxSeries == 3

TextLa == <<97>>                 \* 'a'
TextLb == <<98>>                 \* 'b'
TextSpaceA == <<SPACE, 97>>      \* ' a'
TextAB == <<97, SLASH, 98>>      \* 'a/b'

\* the cells of one group in one column: blank cells, words, a word with a
\* leading blank, a word that holds the delimiter, a number
GroupCells ==
    {NaN, Str(<<>>), Str(<<SPACE>>), Str(TextLa), Str(TextSpaceA), Str(TextLb),
     Str(TextAB), Num(1)}

Reduced(fn) == [op |-> fn, table |-> "", threshold |-> 0, ok |-> TRUE]

InitReduce ==
    /\ series \in SeqsUpTo(GroupCells, MaxSeries)
    /\ hashseed \in Orders(NonBlankStrings(series))
    /\ reduced = Str(<<>>)
    /\ NoDialog
    /\ export_button = FALSE
    /\ workbook = NoFile
    /\ ret = Idle
    /\ tables = NoTables
    /\ deposit_tables = NoTables
    /\ future_tables = NoTables
    /\ processed_tables = NoTables

\* groupby(...).agg calls the text reducer on the group
ReduceText ==
    /\ reduced' = combine_text_values(series, hashseed)
    /\ ret' = Reduced("combine_text_values")
    /\ UNCHANGED <<tables, deposit_tables, future_tables, processed_tables, hashseed,
                   series, threshold_input, app_threshold, workbook,
                   export_button>>

\* groupby(...).agg calls the numeric reducer on the group
ReduceSum ==
    /\ reduced' = sum_numeric_values(series)
    /\ ret' = Reduced("sum_numeric_values")
    /\ UNCHANGED <<tables, deposit_tables, future_tables, processed_tables, hashseed,
                   series, threshold_input, app_threshold, workbook,
                   export_button>>

NextReduce == ReduceText \/ ReduceSum

SpecReduce == InitReduce /\ [][NextReduce]_vars

TextReduced == ret.op = "combine_text_values"

\* C6: the text reducer's output, split on '/', holds no value twice and no
\* empty segment, and it is the empty string when the group has no non-blank
\* value
C6_NoDuplicateNoEmptySegment ==
    TextReduced =>
        LET parts == Split(reduced.s, SLASH)
        IN /\ reduced.k = "str"
           /\ reduced.s # <<>> =>
                  /\ \A i, j \in DOMAIN parts : i # j => parts[i] # parts[j]
                  /\ \A i \in DOMAIN parts : parts[i] # <<>>
           /\ (\A i \in DOMAIN series :
                   isna(series[i]) \/ strip(ToStr(series[i])) = <<>>)
                  => reduced.s = <<>>

\* the group's non-blank values, trimmed, each where first seen
FirstSeenTrimmed ==
    LET vals == [i \in DOMAIN series |-> strip(ToStr(series[i]))]
        firsts == SelectSeq([i \in DOMAIN series |-> i],
                            LAMBDA i : /\ ~isna(series[i])
                                       /\ vals[i] # <<>>
                                       /\ \A j \in 1..(i - 1) :
                                              isna(series[j]) \/ vals[j] # vals[i])
    IN [n \in DOMAIN firsts |-> vals[firsts[n]]]

\* C7: the text reducer's output is the group's distinct trimmed values in
\* first-seen order joined by '/', so cells that differ only in surrounding
\* blanks give one segment and the same rows always give the same string
C7_FirstSeenTrimmedJoin ==
    TextReduced => reduced = Str(Join(FirstSeenTrimmed, <<SLASH>>))

(***************************************************************************)
(* Workbooks that differ in their header row; one row of cells, each cell  *)
(* telling the column it came from                                         *)
(***************************************************************************)
\* the labels of a column map: every canonical label followed by its aliases
RECURSIVE FlatLabels(_)
FlatLabels(column_maps) ==
    IF column_maps = <<>> THEN <<>>
    ELSE <<Head(column_maps).col>> \o Head(column_maps).alts
         \o FlatLabels(Tail(column_maps))

FutureCfg ==
    [required_columns |-> FutureColumns, column_maps |-> FutureColumnMaps,
     optional |-> <<>>]

DepositCfg ==
    [required_columns |-> DepositRequired, column_maps |-> DepositColumnMaps,
     optional |-> <<>>]

AllNames == BucketedNames \cup {DEPOSIT_RATIO, DEPOSIT_INVERSION, FUTURE_SUMMARY}

CfgOf(name) ==
    CASE name = OVERDUE_PAYMENT -> PaymentCfg
      [] name = OVERDUE_DELIVERY -> DeliveryCfg
      [] name = INVENTORY -> InventoryCfg
      [] name = FUTURE_SUMMARY -> FutureCfg
      [] OTHER -> DepositCfg

\* every label a header of the model may hold, in the order of the columns
LabelList ==
    <<"hetonghao">> \o FlatLabels(PaymentCfg.column_maps)
    \o FlatLabels(DeliveryCfg.column_maps) \o FlatLabels(InventoryCfg.column_maps)
    \o FlatLabels(DepositColumnMaps) \o FlatLabels(FutureColumnMaps)
    \o PaymentCfg.optional \o DeliveryCfg.optional \o <<BEIZHU_AGAIN>>

CodeOf(label) ==
    CHOOSE i \in DOMAIN LabelList :
        LabelList[i] = label /\ \A j \in 1..(i - 1) : LabelList[j] # label

\* 履约风险值（元） and its aliases
RiskLabels == Range(FlatLabels(<<FutureColumnMaps[4]>>))

\* the cell under a label: a number that names the label (negative under the
\* risk labels, which are kept when below the threshold); under 逾期事由 and
\* its first alias a control-cargo reason
SourceCell(label) ==
    CASE label = "yuqishiyou" -> Str(KONGHUO_YUQI)
      [] label = "yuqiyuanyin" -> Str(YICHUYUN)
      [] label \in RiskLabels -> Num(0 - (10 + CodeOf(label)))
      [] OTHER -> Num(10 + CodeOf(label))

\* the header in which every column has its canonical label
BaseLabels(name) ==
    Range(CfgOf(name).required_columns) \cup Range(CfgOf(name).optional)
    \cup (IF name \in {OVERDUE_PAYMENT, OVERDUE_DELIVERY} THEN {"hetonghao"} ELSE {})

AliasesOf(name, col) ==
    UNION {Range(CfgOf(name).column_maps[i].alts) :
              i \in {j \in DOMAIN CfgOf(name).column_maps :
                         CfgOf(name).column_maps[j].col = col}}

\* the headers of a table: the canonical header with one column's label
\* replaced by any set of that label and its aliases (none: the column is
\* absent), and the canonical header with 备注 twice
HeaderSets(name) ==
    UNION {{(BaseLabels(name) \ {col}) \cup S : S \in SUBSET ({col} \cup AliasesOf(name, col))} :
              col \in BaseLabels(name)}
    \cup (IF "beizhu" \in BaseLabels(name)
          THEN {BaseLabels(name) \cup {BEIZHU_AGAIN}} ELSE {})

HeaderOf(labels) ==
    SelectSeq(LabelList,
              LAMBDA l : l \in labels /\ LabelList[CodeOf(l)] = l)

Dedup(seq) ==
    LET firsts == SelectSeq([i \in DOMAIN seq |-> i],
                            LAMBDA i : \A j \in 1..(i - 1) : seq[j] # seq[i])
    IN [n \in DOMAIN firsts |-> seq[firsts[n]]]

SourceTable(labels) ==
    LET cols == Dedup(HeaderOf(labels))
    IN DataFrame(cols, <<[l \in Range(cols) |-> SourceCell(l)]>>)

InitResolve ==
    /\ \E name \in AllNames : \E labels \in HeaderSets(name) :
           /\ labels # {}
           /\ tables = IF name \in BucketedNames
                       THEN [n \in {name} |-> SourceTable(labels)] ELSE NoTables
           /\ deposit_tables = IF name \in {DEPOSIT_RATIO, DEPOSIT_INVERSION}
                               THEN [n \in {name} |-> SourceTable(labels)] ELSE NoTables
           /\ future_tables = IF name = FUTURE_SUMMARY
                              THEN [n \in {name} |-> SourceTable(labels)] ELSE NoTables
    /\ processed_tables = NoTables
    /\ ret = Idle
    /\ hashseed = <<>>
    /\ series = <<>>
    /\ reduced = Str(<<>>)
    /\ NoDialog
    /\ export_button = FALSE
    /\ workbook = NoFile

NextResolve ==
    \/ process_overdue_payment
    \/ process_overdue_delivery
    \/ process_inventory
    \/ process_deposit_ratio
    \/ process_deposit_inversion
    \/ process_future_summary

SpecResolve == InitResolve /\ [][NextResolve]_vars

(***************************************************************************)
(* Properties of column resolution, checked under SpecResolve              *)
(***************************************************************************)
\* the last call was an operation on a table that is loaded
CalledOnTable ==
    ret.op # "none"
    /\ ret.table \in DOMAIN tables \cup DOMAIN deposit_tables \cup DOMAIN future_tables

\* the raw table of the last call
LastSource ==
    IF ret.table \in DOMAIN tables THEN tables[ret.table]
    ELSE IF ret.table \in DOMAIN deposit_tables THEN deposit_tables[ret.table]
    ELSE future_tables[ret.table]

\* the column has its canonical label or one of its aliases in the header
Matched(col) ==
    col \in Columns(LastSource)
    \/ AliasesOf(ret.table, col) \cap Columns(LastSource) # {}

\* the required columns of the last call's table without a match
Unmatched == {c \in Range(CfgOf(ret.table).required_columns) : ~Matched(c)}

StoredNothing == ret.table \notin DOMAIN processed_tables

FilterColumn ==
    IF ret.table = FUTURE_SUMMARY THEN "lvyuefengxianzhi(yuan)"
    ELSE "buzhi0% xuzhuijia (wanyuan)"

AbsentOptional == {c \in Range(CfgOf(ret.table).optional) : ~Matched(c)}

\* C9: a bucketed operation on a table that lacks an optional column (and
\* has every other column) returns True, and the stored table has the column,
\* empty in every row that is not a collapsed 其他 row
C9_OptionalDefaulted ==
    (/\ CalledOnTable
     /\ ret.table \in BucketedNames
     /\ AbsentOptional # {}
     /\ Unmatched \subseteq AbsentOptional) =>
        /\ ret.ok
        /\ ~StoredNothing
        /\ \A c \in AbsentOptional :
               /\ c \in Columns(processed_tables[ret.table])
               /\ \A i \in DOMAIN processed_tables[ret.table].rows :
                      LET r == processed_tables[ret.table].rows[i]
                      IN r[c] = Str(<<>>)
                         \/ (r[c] = Str(SEE_DETAIL) /\ r[CfgOf(ret.table).entity] = Str(QITA))

\* the label whose column the claim says is used for a canonical column:
\* the canonical label when the header has it, else the first alias, in list
\* order, that the header has
IsExpectedLabel(l, entry) ==
    IF entry.col \in Columns(LastSource) THEN l = entry.col
    ELSE \E n \in DOMAIN entry.alts :
             /\ entry.alts[n] = l
             /\ l \in Columns(LastSource)
             /\ \A m \in 1..(n - 1) : entry.alts[m] \notin Columns(LastSource)

\* the cell is the cell of the source column with that label
CameFrom(cell, l) == to_numeric(cell) = to_numeric(SourceCell(l))

\* C10: after a successful operation every cell of a canonical column of the
\* stored table came from the source column with the canonical label when the
\* header has it, and otherwise from the first alias in list order that the
\* header has; the reason column, which is not stored, shows in the derived
\* column that received the amount
C10_ExactThenFirstAlias ==
    (CalledOnTable /\ ret.ok) =>
        LET out == processed_tables[ret.table]
            maps == CfgOf(ret.table).column_maps
        IN \A e \in DOMAIN maps : \A l \in {maps[e].col} \cup Range(maps[e].alts) :
               IsExpectedLabel(l, maps[e]) =>
                   \A i \in DOMAIN out.rows :
                       /\ maps[e].col \in Columns(out) => CameFrom(out.rows[i][maps[e].col], l)
                       /\ maps[e].col = "yuqishiyou" =>
                              (out.rows[i]["konghuolei"] # Num(0)
                                   <=> l \in {"yuqishiyou", "yuqiyuanyin"})

\* C10 witness: a successful call on a header without the canonical label of
\* a column and with two of its aliases; the stored row has the first one's cell
C10_Witness ==
    /\ CalledOnTable
    /\ ret.ok
    /\ LET out == processed_tables[ret.table]
           maps == CfgOf(ret.table).column_maps
       IN \E e \in DOMAIN maps : \E m, n \in DOMAIN maps[e].alts :
              /\ m < n
              /\ maps[e].col \notin Columns(LastSource)
              /\ {maps[e].alts[m], maps[e].alts[n]} \subseteq Columns(LastSource)
              /\ \A k \in 1..(m - 1) : maps[e].alts[k] \notin Columns(LastSource)
              /\ maps[e].col \in Columns(out)
              /\ out.rows # <<>>
              /\ CameFrom(out.rows[1][maps[e].col], maps[e].alts[m])
              /\ ~CameFrom(out.rows[1][maps[e].col], maps[e].alts[n])

(***************************************************************************)
(* Properties of the stored tables, checked under SpecResolve              *)
(***************************************************************************)
\* the fixed column list of a table's result
FixedColumns(name) ==
    CASE name \in BucketedNames -> CfgOf(name).columns_to_keep
      [] name = FUTURE_SUMMARY -> FutureColumns
      [] OTHER -> DepositRequired

\* the labels the stored table of the last call shows, left to right
StoredLabels ==
    [i \in DOMAIN processed_tables[ret.table].cols |->
        LabelOf(processed_tables[ret.table].cols[i])]

\* C11: the table stored by a successful process_* call shows exactly the
\* fixed column list of that table, in the fixed order: every listed column
\* once, and no other column
C11_FixedColumnList ==
    (CalledOnTable /\ ret.ok) => StoredLabels = FixedColumns(ret.table)

\* the statement of C11 on the workbooks whose header shows no label twice
C11_FixedColumnListOfDistinctLabels ==
    (/\ CalledOnTable
     /\ ret.ok
     /\ \A i \in DOMAIN LastSource.cols : LabelOf(LastSource.cols[i]) = LastSource.cols[i])
        => StoredLabels = FixedColumns(ret.table)

(***************************************************************************)
(* Workbooks that differ in their rows: the key cell, the label cell, the  *)
(* amount and the reason or 类型 of every row, under headers with and      *)
(* without the key column                                                  *)
(***************************************************************************)
MaxFillRows == 3

TextK == <<107>>                  \* 'k'
TextT1 == <<84, 49>>              \* 'T1'
TextT2 == <<84, 50>>              \* 'T2'
TextXiaojiU1 == TextU1 \o XIAOJI  \* 'U1小计'

\* rows that differ in the key cell (a value, an empty string, blank) and in
\* the label cell (a unit, 合计, a text that holds 小计)
SubtotalRows ==
    {[key |-> k, label |-> Str(l), value |-> Num(3), kind |-> Str(TextX)] :
        k \in {Str(TextK), Str(<<>>), NaN}, l \in {TextU1, HEJI, TextXiaojiU1}}

\* rows that differ in the amount (or filter value) and in the reason code
ValueRows ==
    {[key |-> Str(TextK), label |-> Str(TextU1), value |-> v, kind |-> Str(r)] :
        v \in {Num(2), Num(3), Str(Text12), NaN}, r \in {KONGHUO_YUQI, YICHUYUN, TextX}}

\* rows that differ in the 类型 cell, with and without a key cell
TypeRows ==
    {[key |-> k, label |-> Str(TextU1), value |-> Num(1), kind |-> t] :
        k \in {Str(TextK), NaN}, t \in {NaN, Str(<<>>), Str(TextT1), Str(TextT2)}}

\* the headers of a table: "key" has the key column under its first name,
\* "alias" under an alternative name, "none" has no key column
HeaderKinds == {"key", "alias", "none"}

\* the header of a table, the columns that hold a row's four cells first
FilterHeader(name, kind) ==
    CASE name \in {OVERDUE_PAYMENT, OVERDUE_DELIVERY} ->
           (CASE kind = "key" -> <<"hetonghao", "jingyingdanwei">>
              [] kind = "alias" -> <<"bianhao", "jingyingdanwei">>
              \* no contract column: the label under 经营单位
              [] OTHER -> <<"jingyingdanwei">>)
           \o <<"jine/wanyuan", "yuqishiyou", "banqun",
                IF name = OVERDUE_PAYMENT THEN "kehu" ELSE "gongyingshang", "chanpin">>
      [] name = INVENTORY ->
           (CASE kind = "key" -> <<"chanpin", "jingyingdanwei">>
              [] kind = "alias" -> <<"pinming", "jingyingdanwei">>
              [] OTHER -> <<"jingyingdanwei">>)
           \o <<"kucun/wanyuan", "benzhouchulijihua", "banqun", "kucundidian">>
      [] name = FUTURE_SUMMARY ->
           (CASE kind = "key" -> <<"bumen", "beizhu">>
              [] kind = "alias" -> <<"danwei", "beizhu">>
              \* no 部门, 经营单位 or 单位: the first column is 部门名称
              [] OTHER -> <<"bumenmingcheng", "beizhu">>)
           \o <<"lvyuefengxianzhi(yuan)", "leixing", "gongyingshang/kehu">>
      [] OTHER ->
           (CASE kind = "key" -> <<"kehumingcheng", "jingyingdanwei">>
              [] kind = "alias" -> <<"kehu", "jingyingdanwei">>
              [] OTHER -> <<"jingyingdanwei">>)
           \o <<"buzhi0% xuzhuijia (wanyuan)", "beizhu", "shangpin",
                "shijibaozhengjinbili", "buzhi10%xuzhuijia (wanyuan, ...)",
                "zaishouyewujine(wanyuan)">>

\* a payment or delivery table without a contract column and without
\* 经营单位: the label is in the first column, under 单位
FirstColumnHeader(name) ==
    <<"danwei", "jine/wanyuan", "yuqishiyou", "banqun",
      IF name = OVERDUE_PAYMENT THEN "kehu" ELSE "gongyingshang", "chanpin">>

\* the cells of one row under a header: the key, the label, the value and
\* the kind where the header has their columns, then fixed cells
FilterCells(cols, hasKey, row) ==
    LET lead == (IF hasKey THEN <<row.key>> ELSE <<>>) \o <<row.label, row.value, row.kind>>
    IN [i \in DOMAIN cols |-> IF i <= Len(lead) THEN lead[i] ELSE Str(TextG)]

FilterSource(cols, hasKey, rows) ==
    DataFrame(cols, [i \in DOMAIN rows |-> Row(cols, FilterCells(cols, hasKey, rows[i]))])

FilterSources(name) ==
    LET pools == SeqsUpTo(SubtotalRows, MaxRows) \cup SeqsUpTo(ValueRows, MaxRows)
                 \cup (IF name = FUTURE_SUMMARY
                       THEN SeqsUpTo(TypeRows, MaxFillRows) ELSE {})
    IN {FilterSource(FilterHeader(name, kind), TRUE, rows) :
            kind \in {"key", "alias"}, rows \in pools \ {<<>>}}
       \cup {FilterSource(FilterHeader(name, "none"), name = FUTURE_SUMMARY, rows) :
                rows \in pools \ {<<>>}}
       \cup (IF name \in {OVERDUE_PAYMENT, OVERDUE_DELIVERY}
             THEN {FilterSource(FirstColumnHeader(name), FALSE, rows) :
                      rows \in SeqsUpTo(SubtotalRows, MaxRows) \ {<<>>}}
             ELSE {})

InitFilter ==
    /\ \E name \in AllNames : \E table \in FilterSources(name) :
           /\ tables = IF name \in BucketedNames
                       THEN [n \in {name} |-> table] ELSE NoTables
           /\ deposit_tables = IF name \in {DEPOSIT_RATIO, DEPOSIT_INVERSION}
                               THEN [n \in {name} |-> table] ELSE NoTables
           /\ future_tables = IF name = FUTURE_SUMMARY
                              THEN [n \in {name} |-> table] ELSE NoTables
    /\ processed_tables = NoTables
    /\ ret = Idle
    /\ hashseed = <<>>
    /\ series = <<>>
    /\ reduced = Str(<<>>)
    /\ NoDialog
    /\ export_button = FALSE
    /\ workbook = NoFile

SpecFilter == InitFilter /\ [][NextResolve]_vars

(***************************************************************************)
(* The subtotal filter, row by row                                         *)
(***************************************************************************)
\* the first step of each process_* operation on its raw table
SubtotalFilter(name, df) ==
    CASE name \in {OVERDUE_PAYMENT, OVERDUE_DELIVERY} -> ContractFilter(df)
      [] name = INVENTORY -> ProductFilter(df)
      [] name = FUTURE_SUMMARY -> DeptFilter(df)
      [] OTHER -> CustomerFilter(df)

\* the rows of a frame as tuples of cells, in the order of its columns
AsTuples(df) ==
    [i \in DOMAIN df.rows |-> [j \in DOMAIN df.cols |-> df.rows[i][df.cols[j]]]]

\* the rows the last call's filter left
LastKept == AsTuples(SubtotalFilter(ret.table, LastSource))

NonBlank(c) == ~isna(c) /\ strip(ToStr(c)) # <<>>

\* the names under which each operation looks for its key column
KeyNames(name) ==
    CASE name \in {OVERDUE_PAYMENT, OVERDUE_DELIVERY} -> possible_contract_columns
      [] name = INVENTORY -> <<"chanpin", "pinming", "huowu", "chanpinmingcheng", "shangpin">>
      [] name = FUTURE_SUMMARY -> <<"bumen", "jingyingdanwei", "danwei">>
      [] OTHER -> <<"kehumingcheng", "kehu", "kehuming", "qiyemingcheng", "gouhuodanwei">>

\* the positions of the key columns in the last call's header: the first of
\* the key names that the header shows
KeyPositions ==
    LET names == KeyNames(ret.table)
        shown == {i \in DOMAIN names : names[i] \in Columns(LastSource)}
        first == CHOOSE i \in shown : \A j \in shown : i <= j
    IN IF shown = {} THEN {}
       ELSE {j \in DOMAIN LastSource.cols : LastSource.cols[j] = names[first]}

\* the position of the label column: 经营单位, else the first column
LabelPosition ==
    IF "jingyingdanwei" \in Columns(LastSource)
    THEN CHOOSE j \in DOMAIN LastSource.cols : LastSource.cols[j] = "jingyingdanwei"
    ELSE 1

\* C12: in every process_* operation the subtotal filter never removes a row
\* whose key column holds a non-blank value: the rows with a non-blank key
\* cell are after the filter what they were before it, in the same order
C12_KeyedRowsKept ==
    (CalledOnTable /\ KeyPositions # {}) =>
        LET keyed(t) == \A j \in KeyPositions : NonBlank(t[j])
        IN SelectSeq(LastKept, keyed) = SelectSeq(AsTuples(LastSource), keyed)

\* a call on a table that has a row with a key and a row without, the filter
\* having removed a row and kept the keyed one
C12_Witness ==
    /\ CalledOnTable /\ KeyPositions # {}
    /\ \E i \in DOMAIN LastSource.rows :
           \A j \in KeyPositions : NonBlank(AsTuples(LastSource)[i][j])
    /\ Len(LastKept) < Len(LastSource.rows)
    /\ Len(LastKept) > 0

LastCategorized == Categorize(LastFiltered)

CategorizedCalled == BucketedCalled /\ ret.table \in {OVERDUE_PAYMENT, OVERDUE_DELIVERY}

\* the row's 逾期事由 is one of the two control-cargo codes
HasControlCode(r) == r["yuqishiyou"].k = "str" /\ r["yuqishiyou"].s \in {KONGHUO_YUQI, YICHUYUN}

\* C14: in process_overdue_payment and process_overdue_delivery, after the
\* categorizer every row has its 金额/万元 in exactly one of 控货类业务逾期金额 and
\* 授信类业务逾期金额 and 0.0 in the other, in the first when its 逾期事由 is one
\* of the two control-cargo codes and in the second otherwise; and the two
\* columns of the stored table add up to the amounts of the rows of each kind
C14_OneCategoryPerRow ==
    CategorizedCalled =>
        /\ Len(LastCategorized.rows) = Len(LastFiltered.rows)
        /\ \A i \in DOMAIN LastCategorized.rows :
               LET r == LastCategorized.rows[i]
                   amount == LastFiltered.rows[i]["jine/wanyuan"]
               IN IF HasControlCode(LastFiltered.rows[i])
                  THEN r["konghuolei"] = amount /\ r["shouxinlei"] = Num(0)
                  ELSE r["shouxinlei"] = amount /\ r["konghuolei"] = Num(0)
        /\ ret.ok =>
               /\ NumericSum(Column(LastFinal, "konghuolei"))
                    = NumericSum(Column(FilterRows(LastFiltered, HasControlCode),
                                        "jine/wanyuan"))
               /\ NumericSum(Column(LastFinal, "shouxinlei"))
                    = NumericSum(Column(FilterRows(LastFiltered,
                                                   LAMBDA r : ~HasControlCode(r)),
                                        "jine/wanyuan"))

\* a stored table made of a row of each kind, with different amounts and
\* with each of the two control-cargo codes in turn
C14_Witness ==
    /\ CategorizedCalled /\ ret.ok
    /\ Len(LastFiltered.rows) = 2
    /\ HasControlCode(LastFiltered.rows[1]) /\ ~HasControlCode(LastFiltered.rows[2])
    /\ LastFiltered.rows[1]["yuqishiyou"] = Str(YICHUYUN)
    /\ LastFiltered.rows[1]["jine/wanyuan"] = Num(2)
    /\ LastFiltered.rows[2]["jine/wanyuan"] = Num(3)
    /\ NumericSum(Column(LastFinal, "konghuolei")) = 2
    /\ NumericSum(Column(LastFinal, "shouxinlei")) = 3

(***************************************************************************)
(* The threshold filter of the filter-only operations, row by row          *)
(***************************************************************************)
FilterOnlyDone ==
    /\ CalledOnTable /\ ret.ok
    /\ ret.table \in {DEPOSIT_RATIO, DEPOSIT_INVERSION, FUTURE_SUMMARY}

\* the source rows that have a key: with a key column, those whose key cell
\* is not NaN; without one, all of them (process_future_summary: those whose
\* first cell is not NaN)
KeyedSourceRows ==
    SelectSeq(AsTuples(LastSource),
              LAMBDA t : IF KeyPositions # {} THEN \A j \in KeyPositions : t[j].k # "nan"
                         ELSE ret.table = FUTURE_SUMMARY => t[1].k # "nan")

\* the positions of the source columns that a stored column came from
SourcePositions(c) ==
    LET maps == CfgOf(ret.table).column_maps
        entry == maps[CHOOSE e \in DOMAIN maps : maps[e].col = c]
    IN {j \in DOMAIN LastSource.cols : IsExpectedLabel(LastSource.cols[j], entry)}

\* the value is a number strictly on the stored side of the threshold
StrictlyBeyond(c, threshold) ==
    /\ to_numeric(c).k = "num"
    /\ IF ret.table = FUTURE_SUMMARY THEN to_numeric(c).n < threshold
       ELSE to_numeric(c).n > threshold

\* the keyed source rows the claim says are stored
QualifyingRows ==
    SelectSeq(KeyedSourceRows,
              LAMBDA t : \E j \in SourcePositions(FilterColumn) :
                             StrictlyBeyond(t[j], ret.threshold))

Blank(c) == c.k = "nan" \/ (c.k = "str" /\ strip(c.s) = <<>>)

\* the 类型 cells of the rows the subtotal filter left, top to bottom
TypeCells ==
    [i \in DOMAIN KeyedSourceRows |->
        KeyedSourceRows[i][CHOOSE j \in SourcePositions("leixing") : TRUE]]

\* the cell the claim puts in row i: its own when it is not blank or no cell
\* above it is, else the nearest cell above it that is not blank
NearestAbove(i) ==
    LET above == {j \in 1..(i - 1) : ~Blank(TypeCells[j])}
    IN IF ~Blank(TypeCells[i]) \/ above = {} THEN TypeCells[i]
       ELSE TypeCells[CHOOSE j \in above : \A k \in above : k <= j]

\* C16: in process_future_summary the stored 类型 of every row is the forward
\* fill over the rows the subtotal filter left: a 类型 that is not blank is
\* unchanged, a blank one with a non-blank one above it takes the nearest
\* such value, and the blank ones above the first non-blank one stay as they
\* are
C16_ForwardFill ==
    (FilterOnlyDone /\ ret.table = FUTURE_SUMMARY /\ SourcePositions("leixing") # {}) =>
        LET filled == [i \in DOMAIN KeyedSourceRows |->
                          [type |-> NearestAbove(i), row |-> KeyedSourceRows[i]]]
            stored == SelectSeq(filled,
                                LAMBDA f : \E j \in SourcePositions(FilterColumn) :
                                               StrictlyBeyond(f.row[j], ret.threshold))
            out == processed_tables[ret.table]
        IN /\ Len(out.rows) = Len(stored)
           /\ \A i \in DOMAIN out.rows : out.rows[i]["leixing"] = stored[i].type

\* three stored rows: the blank 类型 above the first value stays as it is
\* and the blank one under the value takes it
C16_Witness ==
    /\ FilterOnlyDone /\ ret.table = FUTURE_SUMMARY
    /\ SourcePositions("leixing") # {}
    /\ Len(KeyedSourceRows) = 3
    /\ Blank(TypeCells[1]) /\ ~Blank(TypeCells[2]) /\ Blank(TypeCells[3])
    /\ Len(processed_tables[ret.table].rows) = 3
    /\ processed_tables[ret.table].rows[1]["leixing"] = TypeCells[1]
    /\ processed_tables[ret.table].rows[3]["leixing"] = TypeCells[2]

\* a 类型 of a row that the subtotal filter removed is not handed down: the
\* row under it keeps the value of the row above the removed one
C16_WitnessRemovedRow ==
    /\ FilterOnlyDone /\ ret.table = FUTURE_SUMMARY
    /\ Len(LastSource.rows) = 3 /\ Len(KeyedSourceRows) = 2
    /\ LastSource.rows[1]["leixing"] = Str(TextT1)
    /\ LastSource.rows[2]["leixing"] = Str(TextT2)
    /\ Blank(LastSource.rows[3]["leixing"])
    /\ Len(processed_tables[ret.table].rows) = 2
    /\ processed_tables[ret.table].rows[2]["leixing"] = Str(TextT1)

(***************************************************************************)
(* The threshold dialog: the operator edits the text and accepts it        *)
(***************************************************************************)
MaxText == 3

\* the characters the operator types: 3 - blank i n f a
TypedCharacters == {DIGIT0 + 3, MINUS, SPACE, 105, 110, 102, 97}

EnteredTexts == SeqsUpTo(TypedCharacters, MaxText)

InitThreshold ==
    /\ tables = NoTables
    /\ deposit_tables = NoTables
    /\ future_tables = NoTables
    /\ processed_tables = NoTables
    /\ ret = Idle
    /\ hashseed = <<>>
    /\ series = <<>>
    /\ reduced = Str(<<>>)
    /\ threshold_input \in EnteredTexts
    /\ app_threshold = Num(3000)
    /\ export_button = FALSE
    /\ workbook = NoFile

\* the operator changes the text of the line edit
setText ==
    /\ threshold_input' \in EnteredTexts \ {threshold_input}
    /\ ret' = [Idle EXCEPT !.op = "setText"]
    /\ UNCHANGED <<tables, deposit_tables, future_tables, processed_tables, hashseed,
                   series, reduced, app_threshold, workbook,
                   export_button>>

\* the operator accepts the dialog and the handler asks it for the threshold
accept ==
    /\ app_threshold' = get_threshold(threshold_input)
    /\ ret' = [Idle EXCEPT !.op = "get_threshold"]
    /\ UNCHANGED <<tables, deposit_tables, future_tables, processed_tables, hashseed,
                   series, reduced, threshold_input, workbook, export_button>>

NextThreshold == setText \/ accept

SpecThreshold == InitThreshold /\ [][NextThreshold]_vars

\* the text reads as a finite number: digits, a sign before them at most,
\* blanks around them at most
IsFiniteNumberText(text) ==
    LET t == strip(text)
        d == IF t # <<>> /\ Head(t) \in {MINUS, PLUS} THEN Tail(t) ELSE t
    IN d # <<>> /\ \A i \in DOMAIN d : d[i] \in DIGIT0..(DIGIT0 + 9)

\* C17: the threshold the dialog returns is the entered value only when the
\* text parses as a finite number; for every other text it is 3000.0
C17_FiniteOrFallback ==
    ret.op = "get_threshold" =>
        IF IsFiniteNumberText(threshold_input)
        THEN app_threshold.k = "num" /\ app_threshold = to_numeric(Str(threshold_input))
        ELSE app_threshold = Num(3000)

(***************************************************************************)
(* read_excel and read_deposit_sheet: the tables of a sheet                *)
(***************************************************************************)
\* sheet names: 贸易经营风险指标, 保证金
RISK_SHEET == "maoyijingyingfengxianzhibiao"
DEPOSIT_SHEET == "baozhengjin"

\* a heading pattern is a sequence of elements: one character of a set, or
\* any number of characters of a set
Lit(text) == [i \in DOMAIN text |-> [chars |-> {text[i]}, many |-> FALSE]]
OneOf(S) == <<[chars |-> S, many |-> FALSE]>>
ManySpaces == <<[chars |-> WhitespaceChars, many |-> TRUE]>>

\* the pattern matches the text from its i-th character on
RECURSIVE MatchAt(_, _, _)
MatchAt(regex, text, i) ==
    IF regex = <<>> THEN TRUE
    ELSE IF Head(regex).many
         THEN \/ MatchAt(Tail(regex), text, i)
              \/ i <= Len(text) /\ text[i] \in Head(regex).chars /\ MatchAt(regex, text, i + 1)
         ELSE i <= Len(text) /\ text[i] \in Head(regex).chars
              /\ MatchAt(Tail(regex), text, i + 1)

\* re.search(pattern, cell_value)
search(regex, text) == \E i \in 1..(Len(text) + 1) : MatchAt(regex, text, i)

\* table_patterns of read_excel
RiskPatterns ==
    <<
      \* 一、 逾期还款业务
      [regex |-> Lit(<<19968, 12289>>) \o ManySpaces \o Lit(<<36926, 26399, 36824, 27454, 19994, 21153>>),
       name |-> OVERDUE_PAYMENT],
      \* 二、 付款逾期未到货[(（]1[)）]
      [regex |-> Lit(<<20108, 12289>>) \o ManySpaces \o Lit(<<20184, 27454, 36926, 26399, 26410, 21040, 36135>>) \o OneOf({40, 65288}) \o Lit(<<49>>) \o OneOf({41, 65289}),
       name |-> OVERDUE_DELIVERY],
      \* 三、 付款逾期未到货[(（]2、集港及在途部分[)）]
      [regex |-> Lit(<<19977, 12289>>) \o ManySpaces \o Lit(<<20184, 27454, 36926, 26399, 26410, 21040, 36135>>) \o OneOf({40, 65288}) \o Lit(<<50, 12289, 38598, 28207, 21450, 22312, 36884, 37096, 20998>>) \o OneOf({41, 65289}),
       name |-> "3.fukuanyuqiweidaohuo(2, jigangjizaitubufen)"],
      \* 四、 转口销售逾期未开证
      [regex |-> Lit(<<22235, 12289>>) \o ManySpaces \o Lit(<<36716, 21475, 38144, 21806, 36926, 26399, 26410, 24320, 35777>>),
       name |-> "4.zhuankouxiaoshouyuqiweikaizheng"],
      \* 五、 签约未到货
      [regex |-> Lit(<<20116, 12289>>) \o ManySpaces \o Lit(<<31614, 32422, 26410, 21040, 36135>>),
       name |-> "5.qianyueweidaohuo"],
      \* 六、 逾期未交货[/／]未验收[/／]未退质保金[/／]未结算
      [regex |-> Lit(<<20845, 12289>>) \o ManySpaces \o Lit(<<36926, 26399, 26410, 20132, 36135>>) \o OneOf({47, 65295}) \o Lit(<<26410, 39564, 25910>>) \o OneOf({47, 65295}) \o Lit(<<26410, 36864, 36136, 20445, 37329>>) \o OneOf({47, 65295}) \o Lit(<<26410, 32467, 31639>>),
       name |-> "6.yuqiweijiaohuo/weiyanshou/weituizhibaojin/weijiesuan"],
      \* 七、 投标保证金逾期退还表
      [regex |-> Lit(<<19971, 12289>>) \o ManySpaces \o Lit(<<25237, 26631, 20445, 35777, 37329, 36926, 26399, 36864, 36824, 34920>>),
       name |-> "7.toubiaobaozhengjinyuqituihuanbiao"],
      \* 八、 现货敞口90天及以上库存
      [regex |-> Lit(<<20843, 12289>>) \o ManySpaces \o Lit(<<29616, 36135, 25950, 21475, 57, 48, 22825, 21450, 20197, 19978, 24211, 23384>>),
       name |-> INVENTORY],
      \* 九、 期现结合90天及以上库存
      [regex |-> Lit(<<20061, 12289>>) \o ManySpaces \o Lit(<<26399, 29616, 32467, 21512, 57, 48, 22825, 21450, 20197, 19978, 24211, 23384>>),
       name |-> "9.qixianjiehe90tianjiyishangkucun"]>>

\* table_patterns of read_deposit_sheet
DepositPatterns ==
    <<
      [regex |-> Lit(<<20445, 35777, 37329, 27604, 20363, 20302, 20110, 21512, 21516, 32422, 23450, 27604, 20363>>),
       name |-> DEPOSIT_RATIO],
      [regex |-> Lit(<<26410, 32422, 23450, 25910, 20445, 35777, 37329, 30340, 38145, 23450, 19994, 21153, 20215, 26684, 20498, 25346, 24773, 20917>>),
       name |-> DEPOSIT_INVERSION]>>

\* the texts of the column labels that the workbooks of the model show
LabelTexts ==
    <<
      \* 合同号
      [label |-> "hetonghao", text |-> <<21512, 21516, 21495>>],
      \* 板群
      [label |-> "banqun", text |-> <<26495, 32676>>],
      \* 经营单位
      [label |-> "jingyingdanwei", text |-> <<32463, 33829, 21333, 20301>>],
      \* 客户
      [label |-> "kehu", text |-> <<23458, 25143>>],
      \* 供应商
      [label |-> "gongyingshang", text |-> <<20379, 24212, 21830>>],
      \* 产品
      [label |-> "chanpin", text |-> <<20135, 21697>>],
      \* 金额/万元
      [label |-> "jine/wanyuan", text |-> <<37329, 39069, 47, 19975, 20803>>],
      \* 逾期事由
      [label |-> "yuqishiyou", text |-> <<36926, 26399, 20107, 30001>>],
      \* 客户名称
      [label |-> "kehumingcheng", text |-> <<23458, 25143, 21517, 31216>>],
      \* 商品
      [label |-> "shangpin", text |-> <<21830, 21697>>],
      \* 实际保证金比例
      [label |-> "shijibaozhengjinbili", text |-> <<23454, 38469, 20445, 35777, 37329, 27604, 20363>>],
      \* 补至0% 需追加 （万元）
      [label |-> "buzhi0% xuzhuijia (wanyuan)", text |-> <<34917, 33267, 48, 37, 32, 38656, 36861, 21152, 32, 65288, 19975, 20803, 65289>>],
      \* 补至10%需追加 （万元，合同约定低于10%则按合同约定）
      [label |-> "buzhi10%xuzhuijia (wanyuan, ...)", text |-> <<34917, 33267, 49, 48, 37, 38656, 36861, 21152, 32, 65288, 19975, 20803, 65292, 21512, 21516, 32422, 23450, 20302, 20110, 49, 48, 37, 21017, 25353, 21512, 21516, 32422, 23450, 65289>>],
      \* 在手业务金额（万元）
      [label |-> "zaishouyewujine(wanyuan)", text |-> <<22312, 25163, 19994, 21153, 37329, 39069, 65288, 19975, 20803, 65289>>],
      \* 备注
      [label |-> "beizhu", text |-> <<22791, 27880>>],
      \* 部门
      [label |-> "bumen", text |-> <<37096, 38376>>],
      \* 供应商/客户
      [label |-> "gongyingshang/kehu", text |-> <<20379, 24212, 21830, 47, 23458, 25143>>],
      \* 类型
      [label |-> "leixing", text |-> <<31867, 22411>>],
      \* 履约风险值（元）
      [label |-> "lvyuefengxianzhi(yuan)", text |-> <<23653, 32422, 39118, 38505, 20540, 65288, 20803, 65289>>]>>

\* the label a header cell gives its column, after fillna(''): the label of
\* the glossary for its text, '' for a blank cell, and for any other cell a
\* label of its own
LabelOfCell(c) ==
    IF isna(c) \/ c = Str(<<>>) THEN ""
    ELSE IF c.k = "str" /\ \E i \in DOMAIN LabelTexts : LabelTexts[i].text = c.s
         THEN LabelTexts[CHOOSE i \in DOMAIN LabelTexts : LabelTexts[i].text = c.s].label
         ELSE ToString(IF c.k = "num" THEN c.n ELSE c.s)

\* cell_value = str(cell) if not pd.isna(cell) else ""
CellValue(c) == IF isna(c) THEN <<>> ELSE ToStr(c)

\* the index (from 0) of the first row that holds the heading, -1 when no row
\* does: read_excel looks in the first cell of a row, read_deposit_sheet in
\* every cell
HeadingRow(sheet_data, regex, every_cell) ==
    LET hits == {i \in DOMAIN sheet_data :
                    \E j \in (IF every_cell THEN DOMAIN sheet_data[i] ELSE {1}) :
                        search(regex, CellValue(sheet_data[i][j]))}
    IN IF hits = {} THEN -1
       ELSE (CHOOSE i \in hits : \A k \in hits : i <= k) - 1

\* the entries appended to start_rows, from the i-th pattern on: start_row is
\* the row under the heading
RECURSIVE Found(_, _, _)
Found(heading, table_patterns, i) ==
    IF i > Len(table_patterns) THEN <<>>
    ELSE (IF heading[i] >= 0
          THEN <<[start_row |-> heading[i] + 1, name |-> table_patterns[i].name]>>
          ELSE <<>>) \o Found(heading, table_patterns, i + 1)

\* start_rows in the order of the pattern list
InPatternOrder(found) == found

\* start_rows.sort(key=lambda x: x[0]): a stable sort
SortedByStartRow(found) ==
    [k \in DOMAIN found |->
        found[CHOOSE i \in DOMAIN found :
                  Cardinality({j \in DOMAIN found :
                                  \/ found[j].start_row < found[i].start_row
                                  \/ found[j].start_row = found[i].start_row /\ j < i}) + 1
                      = k]]

\* start_rows as the loop over it sees it
StartRows(sheet_data, table_patterns, every_cell) ==
    SortedByStartRow(
        Found([i \in DOMAIN table_patterns |->
                  HeadingRow(sheet_data, table_patterns[i].regex, every_cell)],
              table_patterns, 1))

empty_threshold == 3

\* every cell of the row is NaN
IsNaNRow(row) == \A j \in DOMAIN row : isna(row[j])

\* every cell of the row is NaN or a text that is empty once stripped
IsEmptyRow(row) == \A j \in DOMAIN row : isna(row[j]) \/ (row[j].k = "str" /\ strip(row[j].s) = <<>>)

\* the loop of _find_table_end from row i on
RECURSIVE ScanEnd(_, _, _)
ScanEnd(df, i, empty_count) ==
    IF i >= Len(df) THEN Len(df) - 1
    ELSE IF IsEmptyRow(df[i + 1])
         THEN IF empty_count + 1 >= empty_threshold THEN i - empty_threshold
              ELSE ScanEnd(df, i + 1, empty_count + 1)
         ELSE ScanEnd(df, i + 1, 0)

\* _find_table_end(df, start_row): indices from 0
find_table_end(df, start_row) == ScanEnd(df, start_row + 1, 0)

\* a table whose body begins with its header row
TableDataWithHeader(sheet_data, start_row, end_row) ==
    LET headers == [j \in DOMAIN sheet_data[start_row + 1] |->
                       LabelOfCell(sheet_data[start_row + 1][j])]
        body == SubSeq(sheet_data, start_row + 1, end_row + 1)
        kept == SelectSeq(body, LAMBDA r : \E j \in DOMAIN r : ~isna(r[j]))
    IN DataFrame(headers, [i \in DOMAIN kept |-> Row(headers, kept[i])])

\* sheet_data.iloc[start_row:end_row+1] as a table: the first row gives the
\* labels, the rows under it the body, without the rows that are all NaN
TableData(sheet_data, start_row, end_row) ==
    LET headers == [j \in DOMAIN sheet_data[start_row + 1] |->
                       LabelOfCell(sheet_data[start_row + 1][j])]
        body == SubSeq(sheet_data, start_row + 2, end_row + 1)
        kept == SelectSeq(body, LAMBDA r : \E j \in DOMAIN r : ~isna(r[j]))
    IN DataFrame(headers, [i \in DOMAIN kept |-> Row(headers, kept[i])])

\* a loop that gives up at the first table that is too short
RECURSIVE StoreTablesUntilShort(_, _, _, _)
StoreTablesUntilShort(dict, sheet_data, start_rows, i) ==
    IF i > Len(start_rows) THEN dict
    ELSE LET start_row == start_rows[i].start_row
             end_row == IF i < Len(start_rows) THEN start_rows[i + 1].start_row - 1
                        ELSE find_table_end(sheet_data, start_row)
         IN IF end_row - start_row < 1 THEN dict
            ELSE StoreTablesUntilShort(
                     Put(dict, start_rows[i].name, TableData(sheet_data, start_row, end_row)),
                     sheet_data, start_rows, i + 1)

\* the loop over start_rows from its i-th entry on: a table ends on the row
\* before the next table's start row, the last one where _find_table_end
\* says; a table of fewer than two rows is skipped, the others are stored
RECURSIVE StoreTables(_, _, _, _)
StoreTables(dict, sheet_data, start_rows, i) ==
    IF i > Len(start_rows) THEN dict
    ELSE LET start_row == start_rows[i].start_row
             end_row == IF i < Len(start_rows) THEN start_rows[i + 1].start_row - 1
                        ELSE find_table_end(sheet_data, start_row)
         IN IF end_row - start_row < 1
            THEN StoreTables(dict, sheet_data, start_rows, i + 1)
            ELSE StoreTables(
                     Put(dict, start_rows[i].name, TableData(sheet_data, start_row, end_row)),
                     sheet_data, start_rows, i + 1)

\* read_excel: False when the file or its sheet is missing (pd.read_excel
\* raises), else the tables of the sheet are added to self.tables
read_excel ==
    /\ IF RISK_SHEET \in DOMAIN workbook
       THEN /\ tables' = StoreTables(tables, workbook[RISK_SHEET],
                                     StartRows(workbook[RISK_SHEET], RiskPatterns, FALSE), 1)
            /\ ret' = Returned("read_excel", "", 0, TRUE)
       ELSE /\ tables' = tables
            /\ ret' = Returned("read_excel", "", 0, FALSE)
    /\ UNCHANGED <<deposit_tables, future_tables, processed_tables, hashseed, series,
                   reduced, threshold_input, app_threshold, workbook,
                   export_button>>

\* read_deposit_sheet: as read_excel, on the sheet 保证金; returns
\* len(self.deposit_tables) > 0, and process_deposit, the handler that calls
\* it, enables the export button when it returned True
read_deposit_sheet ==
    /\ IF DEPOSIT_SHEET \in DOMAIN workbook
       THEN /\ deposit_tables' =
                   StoreTables(deposit_tables, workbook[DEPOSIT_SHEET],
                               StartRows(workbook[DEPOSIT_SHEET], DepositPatterns, TRUE), 1)
            /\ ret' = Returned("read_deposit_sheet", "", 0, DOMAIN deposit_tables' # {})
       ELSE /\ deposit_tables' = deposit_tables
            /\ ret' = Returned("read_deposit_sheet", "", 0, FALSE)
    /\ export_button' = (export_button \/ ret'.ok)
    /\ UNCHANGED <<tables, future_tables, processed_tables, hashseed, series,
                   reduced, threshold_input, app_threshold, workbook>>

(***************************************************************************)
(* Sheets: rows of eight cells, each a heading, a row of labels or a blank  *)
(* row; the files selected later have data rows too                        *)
(***************************************************************************)
MaxSheet == 5

Title1 == <<19968, 12289, 36926, 26399, 36824, 27454, 19994, 21153>>  \* 一、逾期还款业务
Title1Spaced == <<19968, 12289, 32, 36926, 26399, 36824, 27454, 19994, 21153>>  \* 一、 逾期还款业务
Title2 == <<20108, 12289, 20184, 27454, 36926, 26399, 26410, 21040, 36135, 65288, 49, 65289>>  \* 二、付款逾期未到货（1）
TitleRatio == <<20445, 35777, 37329, 27604, 20363, 20302, 20110, 21512, 21516, 32422, 23450, 27604, 20363>>  \* 保证金比例低于合同约定比例
TitleInversion == <<26410, 32422, 23450, 25910, 20445, 35777, 37329, 30340, 38145, 23450, 19994, 21153, 20215, 26684, 20498, 25346, 24773, 20917>>  \* 未约定收保证金的锁定业务价格倒挂情况

\* the text of a label of the glossary
LabelText(l) == LabelTexts[CHOOSE i \in DOMAIN LabelTexts : LabelTexts[i].label = l].text

BlankRow == [j \in 1..8 |-> NaN]

\* a row with one text, in its cell j
TextRow(text, j) == [BlankRow EXCEPT ![j] = Str(text)]

\* 合同号, 板群, 经营单位, 客户, 供应商, 产品, 金额/万元, 逾期事由
RiskHeader ==
    LET labels == <<"hetonghao", "banqun", "jingyingdanwei", "kehu", "gongyingshang",
                    "chanpin", "jine/wanyuan", "yuqishiyou">>
    IN [j \in 1..8 |-> Str(LabelText(labels[j]))]

RiskDataRow ==
    <<Str(TextK), Str(TextG), Str(TextU1), Str(TextA), Str(TextB), Str(TextP), Num(3),
      Str(TextX)>>

\* the header of the deposit tables: its eight required columns
DepositHeader == [j \in 1..8 |-> Str(LabelText(DepositRequired[j]))]

DepositDataRow ==
    <<Str(TextU1), Str(TextA), Str(TextP), Num(1), Num(3), Num(3), Num(3), Str(TextX)>>

\* the sheet 贸易经营风险指标: headings in the first cell of a row
RiskSheets ==
    SeqsUpTo({TextRow(Title1, 1), TextRow(Title2, 1), RiskHeader, BlankRow}, MaxSheet)

\* the sheet 保证金: the first heading in the second cell of its row
DepositSheets ==
    SeqsUpTo({TextRow(TitleRatio, 2), TextRow(TitleInversion, 1), DepositHeader,
              BlankRow},
             MaxSheet)

Workbooks ==
    {[sheet \in {RISK_SHEET} |-> g] : g \in RiskSheets}
    \cup {[sheet \in {DEPOSIT_SHEET} |-> g] : g \in DepositSheets}

\* a second customer, with the amount 2
RiskDataRowSmall ==
    <<Str(TextK), Str(TextG), Str(TextU1), Str(TextB), Str(TextA), Str(TextP), Num(2),
      Str(TextX)>>

\* the header without 金额/万元: the cell is blank
RiskHeaderNoAmount == [RiskHeader EXCEPT ![7] = NaN]

\* the files the operator selects later on: a workbook with both tables of
\* each sheet, one whose sheets hold the first table alone, and one whose
\* first table has no 金额/万元 column
LaterWorkbooks ==
    {[sheet \in {RISK_SHEET, DEPOSIT_SHEET} |->
         IF sheet = RISK_SHEET
         THEN <<TextRow(Title1Spaced, 1), RiskHeader, RiskDataRow, RiskDataRowSmall,
                TextRow(Title2, 1), RiskHeader, RiskDataRow>>
         ELSE <<TextRow(TitleRatio, 2), DepositHeader, DepositDataRow,
                TextRow(TitleInversion, 1), DepositHeader, DepositDataRow>>],
     [sheet \in {RISK_SHEET, DEPOSIT_SHEET} |->
         IF sheet = RISK_SHEET
         THEN <<TextRow(Title1, 1), RiskHeader, RiskDataRow>>
         ELSE <<TextRow(TitleRatio, 2), DepositHeader, DepositDataRow>>],
     [sheet \in {RISK_SHEET} |->
         <<TextRow(Title1, 1), RiskHeaderNoAmount, RiskDataRow>>]}

InitRead ==
    /\ tables = NoTables
    /\ deposit_tables = NoTables
    /\ future_tables = NoTables
    /\ processed_tables = NoTables
    /\ ret = Idle
    /\ hashseed = <<>>
    /\ series = <<>>
    /\ reduced = Str(<<>>)
    /\ NoDialog
    /\ export_button = FALSE
    /\ workbook \in Workbooks

\* set_file_path: the operator selects another file
set_file_path ==
    /\ workbook' \in LaterWorkbooks \ {workbook}
    /\ ret' = Returned("set_file_path", "", 0, TRUE)
    /\ UNCHANGED <<tables, deposit_tables, future_tables, processed_tables, hashseed,
                   series, reduced, threshold_input, app_threshold, export_button>>

NextRead == set_file_path \/ read_excel \/ read_deposit_sheet

SpecRead == InitRead /\ [][NextRead]_vars

(***************************************************************************)
(* Tables that a read skips                                                *)
(***************************************************************************)
\* the patterns of a read, and whether it looks in every cell of a row
PatternsOf(op) == IF op = "read_excel" THEN RiskPatterns ELSE DepositPatterns

EveryCell(op) == op = "read_deposit_sheet"

\* the header row of each table of the read: the row (from 0) under the
\* first row that holds its heading, -1 when no row holds it
HeaderRows(op, sheet_data) ==
    [a \in DOMAIN PatternsOf(op) |->
        LET rows == {k \in DOMAIN sheet_data :
                        \E j \in (IF EveryCell(op) THEN DOMAIN sheet_data[k] ELSE {1}) :
                            search(PatternsOf(op)[a].regex, CellValue(sheet_data[k][j]))}
        IN IF rows = {} THEN -1 ELSE CHOOSE i \in rows : \A k \in rows : i <= k]

\* table a comes before table b: by header row, then by place in the list
ComesBefore(header, a, b) ==
    /\ header[a] >= 0 /\ header[b] >= 0
    /\ header[a] < header[b] \/ (header[a] = header[b] /\ a < b)

\* the span computed for table a: its header row, and its last row, which is
\* the row before the header row of the next table and for the last table
\* what _find_table_end gives
SpanOf(sheet_data, header, a) ==
    LET later == {b \in DOMAIN header : ComesBefore(header, a, b)}
    IN [matched |-> header[a] >= 0,
        header |-> header[a],
        end |-> IF header[a] < 0 THEN -1
                ELSE IF later = {} THEN find_table_end(sheet_data, header[a])
                ELSE header[CHOOSE b \in later :
                                \A c \in later \ {b} : ComesBefore(header, b, c)] - 1]

SpansOf(sheet_data, header) == [a \in DOMAIN header |-> SpanOf(sheet_data, header, a)]

Spans(op, sheet_data) == SpansOf(sheet_data, HeaderRows(op, sheet_data))

\* the read skips a table with this span: no row holds its heading, or the
\* span has fewer than 2 rows
Skipped(span) == ~span.matched \/ span.end - span.header + 1 < 2

AfterReadOf(op, sheet_data, before, after, spans) ==
    \A a \in DOMAIN spans :
        IF Skipped(spans[a])
        THEN /\ PatternsOf(op)[a].name \in DOMAIN after
                    <=> PatternsOf(op)[a].name \in DOMAIN before
             /\ PatternsOf(op)[a].name \in DOMAIN before
                    => after[PatternsOf(op)[a].name] = before[PatternsOf(op)[a].name]
        ELSE /\ PatternsOf(op)[a].name \in DOMAIN after
             /\ after[PatternsOf(op)[a].name]
                    = TableData(sheet_data, spans[a].header, spans[a].end)

\* what a read of the sheet leaves in its dictionary, given what was in it:
\* the entries of the skipped tables as they were, the other tables' spans
AfterRead(op, sheet_data, before, after) ==
    AfterReadOf(op, sheet_data, before, after, Spans(op, sheet_data))

\* C20: read_excel and read_deposit_sheet store nothing for a table whose
\* heading no row holds or whose span has fewer than 2 rows, store every
\* other table of the sheet, and do not fail: read_excel returns True, and
\* read_deposit_sheet returns True when it leaves a table in its dictionary
C20_SkipsAndGoesOn ==
    [][/\ (ret'.op = "read_excel" /\ RISK_SHEET \in DOMAIN workbook) =>
              /\ AfterRead("read_excel", workbook[RISK_SHEET], tables, tables')
              /\ ret'.ok
       /\ (ret'.op = "read_deposit_sheet" /\ DEPOSIT_SHEET \in DOMAIN workbook) =>
              /\ AfterRead("read_deposit_sheet", workbook[DEPOSIT_SHEET],
                           deposit_tables, deposit_tables')
              /\ ret'.ok <=> DOMAIN deposit_tables' # {}]_vars

\* a sheet whose first heading has the second heading in the row under it
\* and whose other headings are missing: the second table alone is stored
C20_Witness ==
    /\ ret.op = "read_excel" /\ ret.ok
    /\ RISK_SHEET \in DOMAIN workbook
    /\ HeaderRows("read_excel", workbook[RISK_SHEET])[1] = 1
    /\ HeaderRows("read_excel", workbook[RISK_SHEET])[2] = 2
    /\ Skipped(Spans("read_excel", workbook[RISK_SHEET])[1])
    /\ DOMAIN tables = {OVERDUE_DELIVERY}
    /\ Len(tables[OVERDUE_DELIVERY].rows) = 1

\* a deposit sheet whose second table is skipped and whose first is stored
C20_WitnessDeposit ==
    /\ ret.op = "read_deposit_sheet" /\ ret.ok
    /\ DEPOSIT_SHEET \in DOMAIN workbook
    /\ Skipped(Spans("read_deposit_sheet", workbook[DEPOSIT_SHEET])[2])
    /\ ~Skipped(Spans("read_deposit_sheet", workbook[DEPOSIT_SHEET])[1])
    /\ DOMAIN deposit_tables = {DEPOSIT_RATIO}

(***************************************************************************)
(* A session: files are selected, sheets read and tables processed, in any *)
(* order                                                                   *)
(***************************************************************************)
InitSession ==
    /\ tables = NoTables
    /\ deposit_tables = NoTables
    /\ future_tables = NoTables
    /\ processed_tables = NoTables
    /\ ret = Idle
    /\ hashseed = <<>>
    /\ series = <<>>
    /\ reduced = Str(<<>>)
    /\ NoDialog
    /\ export_button = FALSE
    /\ workbook \in LaterWorkbooks

NextSession == NextRead \/ NextResolve

SpecSession == InitSession /\ [][NextSession]_vars

ProcessOps ==
    {"process_overdue_payment", "process_overdue_delivery", "process_inventory",
     "process_deposit_ratio", "process_deposit_inversion", "process_future_summary"}

\* C18: when the most recent process call for a table returned False,
\* processed_tables holds no entry for that table
C18_FailedMeansNoEntry ==
    (ret.op \in ProcessOps /\ ~ret.ok) => ret.table \notin DOMAIN processed_tables

\* the other half of C18: a failed call leaves the entries of all other
\* tables as they were
C18_FailedLeavesOthers ==
    [][(ret'.op \in ProcessOps /\ ~ret'.ok) =>
           \A n \in (DOMAIN processed_tables \cup DOMAIN processed_tables') \ {ret'.table} :
               /\ n \in DOMAIN processed_tables /\ n \in DOMAIN processed_tables'
               /\ processed_tables'[n] = processed_tables[n]]_vars

\* what the operation of a table computes from the current raw table
Computed(name, threshold) ==
    CASE name = OVERDUE_PAYMENT -> OverduePayment(tables[name], threshold, hashseed)
      [] name = OVERDUE_DELIVERY -> OverdueDelivery(tables[name], threshold, hashseed)
      [] name = INVENTORY -> Inventory(tables[name], threshold, hashseed)
      [] name = FUTURE_SUMMARY -> FutureSummary(future_tables[name], threshold)
      [] OTHER -> DepositTable(deposit_tables[name], threshold)

\* the amount of an entity summed over the rows of a table
StoredTotal(df, entity_col, amount_col, e) ==
    NumericSum([i \in DOMAIN df.rows |->
                   IF df.rows[i][entity_col] = e THEN to_numeric(df.rows[i][amount_col])
                   ELSE Num(0)])

\* every row of the table belongs to a result for this threshold: a filter
\* value strictly beyond it, an entity whose total reaches it, or a 其他 row
OfThreshold(name, df, threshold) ==
    \A i \in DOMAIN df.rows :
        CASE name = FUTURE_SUMMARY ->
               to_numeric(df.rows[i]["lvyuefengxianzhi(yuan)"]).n < threshold
          [] name \in {DEPOSIT_RATIO, DEPOSIT_INVERSION} ->
               to_numeric(df.rows[i]["buzhi0% xuzhuijia (wanyuan)"]).n > threshold
          [] OTHER ->
               \/ df.rows[i][CfgOf(name).entity] = Str(QITA)
               \/ StoredTotal(df, CfgOf(name).entity, CfgOf(name).amount,
                              df.rows[i][CfgOf(name).entity]) >= threshold

\* C19: after a successful process call the stored result of its table is
\* the result computed from the current raw table and the call's threshold,
\* and all of its rows belong to a result for that threshold
C19_StoredIsLatestResult ==
    (ret.op \in ProcessOps /\ ret.ok) =>
        /\ ret.table \in DOMAIN processed_tables
        /\ processed_tables[ret.table] = Computed(ret.table, ret.threshold).df
        /\ OfThreshold(ret.table, processed_tables[ret.table], ret.threshold)

\* a successful call whose stored result is not the result of the other
\* threshold, rows of which would not belong to a result for this one
C19_Witness ==
    /\ ret.op \in ProcessOps /\ ret.ok
    /\ \E other \in Thresholds \ {ret.threshold} :
           /\ Computed(ret.table, other).ok
           /\ Computed(ret.table, other).df # processed_tables[ret.table]
           /\ ~OfThreshold(ret.table, Computed(ret.table, other).df, ret.threshold)

(***************************************************************************)
(* Spans: one table per sheet, in the first sheet under 5 rows that hold no *)
(* heading, with body rows that hold data, are all NaN, or hold a blank    *)
(* text                                                                    *)
(***************************************************************************)
MaxBody == 7

\* a row whose only text is one space
SpaceRow == TextRow(<<SPACE>>, 3)

RowKinds == {"data", "nan", "space"}

BodyShapes == SeqsUpTo(RowKinds, MaxBody)

BodyRow(kind, data) ==
    IF kind = "data" THEN data ELSE IF kind = "nan" THEN BlankRow ELSE SpaceRow

\* rows without a heading, the heading, the header, the body
SpanSheet(lead, title, header, data, shape) ==
    [i \in 1..lead |-> TextRow(TextX, 1)] \o <<title, header>>
        \o [i \in DOMAIN shape |-> BodyRow(shape[i], data)]

SpanWorkbooks ==
    {[sheet \in {RISK_SHEET, DEPOSIT_SHEET} |->
         IF sheet = RISK_SHEET
         THEN SpanSheet(5, TextRow(Title1, 1), RiskHeader, RiskDataRow, shape)
         ELSE SpanSheet(0, TextRow(TitleRatio, 2), DepositHeader, DepositDataRow, shape)] :
     shape \in BodyShapes}

InitSpan ==
    /\ tables = NoTables
    /\ deposit_tables = NoTables
    /\ future_tables = NoTables
    /\ processed_tables = NoTables
    /\ ret = Idle
    /\ hashseed = <<>>
    /\ series = <<>>
    /\ reduced = Str(<<>>)
    /\ NoDialog
    /\ export_button = FALSE
    /\ workbook \in SpanWorkbooks

NextSpan == read_excel \/ read_deposit_sheet

SpecSpan == InitSpan /\ [][NextSpan]_vars

(***************************************************************************)
(* The body of a stored table                                              *)
(***************************************************************************)
\* every cell of the row is empty or whitespace
FullyBlank(row) == \A j \in DOMAIN row : Blank(row[j])

\* every cell of the row is NaN
AllNaN(row) == \A j \in DOMAIN row : isna(row[j])

\* the rows (from 0) of the span under its header row
BodyRowsOf(span) == (span.header + 1)..span.end

\* the dictionary of a read, and its sheet
DictOf(op) == IF op = "read_excel" THEN tables ELSE deposit_tables

SheetOf(op) == IF op = "read_excel" THEN RISK_SHEET ELSE DEPOSIT_SHEET

ReadOps == {"read_excel", "read_deposit_sheet"}

\* the tables that the read of the selected file has stored, as indices of
\* its patterns
StoredOf(op) ==
    IF SheetOf(op) \notin DOMAIN workbook THEN {}
    ELSE {a \in DOMAIN PatternsOf(op) :
             /\ PatternsOf(op)[a].name \in DOMAIN DictOf(op)
             /\ ~Skipped(Spans(op, workbook[SheetOf(op)])[a])}

\* C21: every table stored by read_excel or read_deposit_sheet has
\* (end row - header row) body rows less the rows of the span under the
\* header whose cells are all empty or whitespace
C21_BodyRowCount ==
    \A op \in ReadOps : \A a \in StoredOf(op) :
        LET sheet_data == workbook[SheetOf(op)]
            span == Spans(op, sheet_data)[a]
        IN Len(DictOf(op)[PatternsOf(op)[a].name].rows)
               = (span.end - span.header)
                 - Cardinality({i \in BodyRowsOf(span) : FullyBlank(sheet_data[i + 1])})

\* the same count with the rows that are all NaN, which is what
\* dropna(how='all') removes
C21_BodyRowCountLessNaNRows ==
    \A op \in ReadOps : \A a \in StoredOf(op) :
        LET sheet_data == workbook[SheetOf(op)]
            span == Spans(op, sheet_data)[a]
        IN Len(DictOf(op)[PatternsOf(op)[a].name].rows)
               = (span.end - span.header)
                 - Cardinality({i \in BodyRowsOf(span) : AllNaN(sheet_data[i + 1])})

(***************************************************************************)
(* The sheet with its heading at row 5                                     *)
(***************************************************************************)
\* the rows (from 0) of the sheet whose first cell holds the heading
HeadingRowsOf(sheet_data, regex) ==
    {i \in 0..(Len(sheet_data) - 1) : search(regex, CellValue(sheet_data[i + 1][1]))}

\* the selected file has a sheet of rows 0 to 13 whose only heading,
\* 一、逾期还款业务, is at row 5, with rows 6 to 10 non-blank and rows 11 to 13
\* blank
HeadingAtRow5 ==
    /\ RISK_SHEET \in DOMAIN workbook
    /\ Len(workbook[RISK_SHEET]) = 14
    /\ HeadingRowsOf(workbook[RISK_SHEET], RiskPatterns[1].regex) = {5}
    /\ \A a \in DOMAIN RiskPatterns \ {1} :
           HeadingRowsOf(workbook[RISK_SHEET], RiskPatterns[a].regex) = {}
    /\ \A i \in 6..10 : ~FullyBlank(workbook[RISK_SHEET][i + 1])
    /\ \A i \in 11..13 : FullyBlank(workbook[RISK_SHEET][i + 1])

\* the table of the rows first..last (from 0) of the sheet under the labels
\* of the row header
RowsUnder(sheet_data, header, first, last) ==
    LET labels == [j \in DOMAIN sheet_data[header + 1] |->
                      LabelOfCell(sheet_data[header + 1][j])]
    IN DataFrame(labels, [i \in 1..(last - first + 1) |->
                             Row(labels, sheet_data[first + i])])

\* C22 as stated: on that sheet read_excel stores the table of the span 6 to
\* 10 with row 6 as its header and 5 data rows
C22_FiveDataRows ==
    (ret.op = "read_excel" /\ HeadingAtRow5) =>
        /\ OVERDUE_PAYMENT \in DOMAIN tables
        /\ tables[OVERDUE_PAYMENT].cols
               = RowsUnder(workbook[RISK_SHEET], 6, 7, 10).cols
        /\ Len(tables[OVERDUE_PAYMENT].rows) = 5

\* C22: on that sheet read_excel stores the table of the span 6 to 10 with
\* row 6 as its header and the 4 rows 7 to 10 as its data rows
C22_FourDataRows ==
    (ret.op = "read_excel" /\ HeadingAtRow5) =>
        /\ OVERDUE_PAYMENT \in DOMAIN tables
        /\ tables[OVERDUE_PAYMENT] = RowsUnder(workbook[RISK_SHEET], 6, 7, 10)
        /\ Len(tables[OVERDUE_PAYMENT].rows) = 4

\* the sheet has been read, and its rows 11 to 13 are all NaN
C22_Witness ==
    /\ ret.op = "read_excel" /\ ret.ok
    /\ HeadingAtRow5
    /\ \A i \in 11..13 : AllNaN(workbook[RISK_SHEET][i + 1])
    /\ OVERDUE_PAYMENT \in DOMAIN tables
    /\ Len(tables[OVERDUE_PAYMENT].rows) = 4

(***************************************************************************)
(* Header rows and end rows                                                *)
(***************************************************************************)
\* for each pattern of the read the first row (from 0) that holds its
\* heading, -1 when no row does
FirstRows(op, sheet_data) ==
    [a \in DOMAIN PatternsOf(op) |->
        LET rows == {i \in 0..(Len(sheet_data) - 1) :
                        \E j \in (IF EveryCell(op) THEN DOMAIN sheet_data[i + 1] ELSE {1}) :
                            search(PatternsOf(op)[a].regex, CellValue(sheet_data[i + 1][j]))}
        IN IF rows = {} THEN -1 ELSE CHOOSE i \in rows : \A k \in rows : i <= k]

\* the tables that come after table a in the order of the header rows
LaterTables(first, a) ==
    {b \in DOMAIN first : first[b] > first[a] \/ (first[b] = first[a] /\ b > a)}

\* the rows header + 1 to end of the sheet that are not all NaN, under the
\* labels of the row header
BodyBetween(sheet_data, header, end) ==
    LET labels == [j \in DOMAIN sheet_data[header + 1] |->
                      LabelOfCell(sheet_data[header + 1][j])]
        rows == SelectSeq([i \in 1..(end - header) |-> sheet_data[header + 1 + i]],
                          LAMBDA r : ~AllNaN(r))
    IN DataFrame(labels, [i \in DOMAIN rows |-> Row(labels, rows[i])])

\* with R the first row of a table's heading, the table has the header row
\* R + 1; a table that is not the last in the order of the header rows ends
\* on the row before the next header row
HeaderAndEndRows(op, sheet_data, first, dict) ==
    \A a \in DOMAIN first :
        first[a] >= 0 =>
            LET header == first[a] + 1
                later == LaterTables(first, a)
                next == CHOOSE b \in later : \A c \in later : first[b] <= first[c]
                end == IF later = {} THEN find_table_end(sheet_data, header)
                       ELSE first[next] + 1 - 1
                name == PatternsOf(op)[a].name
            IN end - header >= 1 =>
                   /\ name \in DOMAIN dict
                   /\ dict[name].cols = BodyBetween(sheet_data, header, end).cols
                   /\ later # {} => dict[name] = BodyBetween(sheet_data, header, end)

\* C23: after read_excel and read_deposit_sheet a stored table has the row
\* under the first row of its heading as header row, and every table but
\* the last in ascending order of the header rows ends on the row before the
\* next table's header row
C23_HeaderRowsAndEnds ==
    \A op \in ReadOps :
        (ret.op = op /\ SheetOf(op) \in DOMAIN workbook) =>
            HeaderAndEndRows(op, workbook[SheetOf(op)],
                             FirstRows(op, workbook[SheetOf(op)]), DictOf(op))

\* the second heading of the list is above the first one in the sheet, and
\* both tables are stored: the upper one ends on the row of the lower heading
C23_Witness ==
    /\ ret.op = "read_excel" /\ RISK_SHEET \in DOMAIN workbook
    /\ LET first == FirstRows("read_excel", workbook[RISK_SHEET])
       IN /\ first[2] >= 0 /\ first[1] = first[2] + 2
          /\ {OVERDUE_PAYMENT, OVERDUE_DELIVERY} \subseteq DOMAIN tables
          /\ Len(tables[OVERDUE_DELIVERY].rows) = 1
          /\ Len(tables[OVERDUE_PAYMENT].rows) >= 1

\* the heading is in two rows: the row under the first of them is the header
C23_WitnessFirstMatch ==
    /\ ret.op = "read_excel" /\ RISK_SHEET \in DOMAIN workbook
    /\ HeadingRowsOf(workbook[RISK_SHEET], RiskPatterns[1].regex) = {0, 1}
    /\ OVERDUE_PAYMENT \in DOMAIN tables
    /\ Len(tables[OVERDUE_PAYMENT].rows) = 1

(***************************************************************************)
(* The end of the last table                                               *)
(***************************************************************************)
\* the rows (from 0) under the row start_row with which three fully-blank
\* rows in a row begin
BlankRunStarts(sheet_data, start_row) ==
    {i \in (start_row + 1)..(Len(sheet_data) - 3) :
        \A k \in i..(i + 2) : FullyBlank(sheet_data[k + 1])}

\* the row before the first run of 3 or more fully-blank rows under the row
\* start_row, the last row of the sheet when there is no such run
RowBeforeBlankRun(sheet_data, start_row) ==
    LET runs == BlankRunStarts(sheet_data, start_row)
    IN IF runs = {} THEN Len(sheet_data) - 1
       ELSE (CHOOSE i \in runs : \A k \in runs : i <= k) - 1

\* the table of the last heading is stored with the rows up to the row
\* before the blank run, when it has 2 rows or more
LastTableEndsThere(op, sheet_data, first) ==
    \A a \in DOMAIN first :
        (first[a] >= 0 /\ LaterTables(first, a) = {}) =>
            LET end == RowBeforeBlankRun(sheet_data, first[a] + 1)
                name == PatternsOf(op)[a].name
            IN end - first[a] >= 2 =>
                   /\ name \in DOMAIN DictOf(op)
                   /\ DictOf(op)[name] = BodyBetween(sheet_data, first[a] + 1, end)

\* C24: _find_table_end returns the row before the first run of at least 3
\* fully-blank rows under the header row, and the last row of the grid when
\* no such run exists; the table that read_excel and read_deposit_sheet
\* store for the last heading ends there
C24_EndBeforeBlankRun ==
    \A op \in ReadOps :
        (ret.op = op /\ SheetOf(op) \in DOMAIN workbook) =>
            LET sheet_data == workbook[SheetOf(op)]
            IN /\ \A start_row \in 0..Len(sheet_data) :
                      find_table_end(sheet_data, start_row)
                          = RowBeforeBlankRun(sheet_data, start_row)
               /\ LastTableEndsThere(op, sheet_data, FirstRows(op, sheet_data))

\* under the header a run of 2 blank rows, a data row and a run of 3 blank
\* rows, one of them blank by whitespace: the table holds the rows up to
\* that data row
C24_Witness ==
    /\ ret.op = "read_excel" /\ RISK_SHEET \in DOMAIN workbook
    /\ LET sheet_data == workbook[RISK_SHEET]
           header == FirstRows("read_excel", sheet_data)[1] + 1
       IN /\ header = 6 /\ Len(sheet_data) >= 14
          /\ FullyBlank(sheet_data[header + 3]) /\ FullyBlank(sheet_data[header + 4])
          /\ ~AllNaN(sheet_data[header + 3])
          /\ ~FullyBlank(sheet_data[header + 2]) /\ ~FullyBlank(sheet_data[header + 5])
          /\ BlankRunStarts(sheet_data, header) = {header + 5}
          /\ \E i \in (header + 5)..(header + 7) : ~AllNaN(sheet_data[i + 1])
          /\ find_table_end(sheet_data, header) = header + 4
          /\ OVERDUE_PAYMENT \in DOMAIN tables
          /\ Len(tables[OVERDUE_PAYMENT].rows) = 3

(***************************************************************************)
(* read_future_sheet: the summary table of the sheet 未定价或远期交货业务    *)
(***************************************************************************)
FUTURE_SHEET == "weidingjiahuoyuanqijiaohuoyewu"

HUIZONGBIAO == <<27719, 24635, 34920>>  \* 汇总表
SHIYEBU == <<20107, 19994, 37096>>  \* 事业部
LINGDAO == <<39046, 23548>>  \* 领导
BUMEN == <<37096, 38376>>  \* 部门
GONGYINGSHANG_KEHU == <<20379, 24212, 21830, 47, 23458, 25143>>  \* 供应商/客户
LEIXING == <<31867, 22411>>  \* 类型
LVYUEFENGXIANZHI == <<23653, 32422, 39118, 38505, 20540, 65288, 20803, 65289>>  \* 履约风险值（元）
FENGXIANZHI == <<39118, 38505, 20540>>  \* 风险值
FENGXIANZHI_YUAN == <<39118, 38505, 20540, 65288, 20803, 65289>>  \* 风险值（元）
FENGXIANJINE == <<39118, 38505, 37329, 39069>>  \* 风险金额
FENGXIANJINE_YUAN == <<39118, 38505, 37329, 39069, 65288, 20803, 65289>>  \* 风险金额（元）
CAIGOU_YUANQI == <<37319, 36141, 36828, 26399, 20132, 36135, 19994, 21153>>  \* 采购远期交货业务
XIAOSHOU_YUANQI == <<38144, 21806, 36828, 26399, 20132, 36135, 19994, 21153>>  \* 销售远期交货业务

\* the least number of a set of numbers, none when the set is empty
Least(S, none) == IF S = {} THEN none ELSE CHOOSE i \in S : \A k \in S : i <= k

\* the row (from 0) of the first cell that holds 汇总表 and 事业部 or 领导, -1
\* when no cell does
title_row(sheet_data) ==
    Least({i \in 0..(Len(sheet_data) - 1) :
              \E j \in DOMAIN sheet_data[i + 1] :
                  LET cell_value == CellValue(sheet_data[i + 1][j])
                  IN /\ Contains(cell_value, HUIZONGBIAO)
                     /\ Contains(cell_value, SHIYEBU) \/ Contains(cell_value, LINGDAO)},
          -1)

\* the first of the 4 rows under the title with a cell that is one of the
\* column names 部门, 供应商/客户, 类型, 履约风险值（元）; the row under the
\* title when there is none
header_row(sheet_data, title) ==
    Least({i \in (title + 1)..(title + 4) :
              /\ i < Len(sheet_data)
              /\ \E j \in DOMAIN sheet_data[i + 1] :
                     strip(CellValue(sheet_data[i + 1][j]))
                         \in {BUMEN, GONGYINGSHANG_KEHU, LEIXING, LVYUEFENGXIANZHI}},
          title + 1)

risk_value_col_names ==
    {LVYUEFENGXIANZHI, FENGXIANZHI, FENGXIANZHI_YUAN, FENGXIANJINE, FENGXIANJINE_YUAN}

\* the first column (from 1) of the header whose name holds one of the
\* risk-value names, 0 when no column does
risk_value_col_idx(headers) ==
    Least({j \in DOMAIN headers :
              \E risk_name \in risk_value_col_names :
                  Contains(strip(CellValue(headers[j])), risk_name)},
          0)

\* pd.isna(cell) or str(cell).strip() == ''
IsBlankCell(c) == isna(c) \/ strip(ToStr(c)) = <<>>

\* the risk value of the row is blank and another cell of it is not
EndsSummary(row, col) ==
    /\ IsBlankCell(row[col])
    /\ \E j \in DOMAIN row \ {col} : ~IsBlankCell(row[j])

\* a cell of the row holds 采购远期交货业务 or 销售远期交货业务
StartsDetail(row) ==
    \E j \in DOMAIN row :
        \/ Contains(CellValue(row[j]), CAIGOU_YUANQI)
        \/ Contains(CellValue(row[j]), XIAOSHOU_YUANQI)

\* the end row among the rows from start_row on: -1 stands for None
future_end_row(sheet_data, start_row, col) ==
    LET rows == start_row..(Len(sheet_data) - 1)
        mark == Least({idx \in rows :
                          IF col = 0 THEN StartsDetail(sheet_data[idx + 1])
                          ELSE EndsSummary(sheet_data[idx + 1], col)},
                      -1)
        end_row == IF mark = -1 THEN -1 ELSE mark - 1
        empty == Least({idx \in rows :
                           \A j \in DOMAIN sheet_data[idx + 1] :
                               IsBlankCell(sheet_data[idx + 1][j])},
                       -1)
        again == IF empty = -1 THEN end_row ELSE empty - 1
    IN IF end_row = -1 \/ end_row < start_row
       THEN IF again = -1 \/ again < start_row THEN Len(sheet_data) - 1 ELSE again
       ELSE end_row

\* what read_future_sheet has to store: nothing when no cell holds the title
\* or the header row is under the last row of the sheet (IndexError)
FutureTable(sheet_data) ==
    LET title == title_row(sheet_data)
        header == header_row(sheet_data, title)
    IN IF title = -1 \/ header >= Len(sheet_data) THEN Failed
       ELSE [ok |-> TRUE,
             df |-> TableData(sheet_data, header,
                              future_end_row(sheet_data, header + 1,
                                             risk_value_col_idx(sheet_data[header + 1])))]

\* read_future_sheet: False when the file or its sheet is missing, else the
\* summary table is put into self.future_tables; process_future, the handler
\* that calls it, enables the export button when it returned True
read_future_sheet ==
    /\ IF FUTURE_SHEET \in DOMAIN workbook /\ FutureTable(workbook[FUTURE_SHEET]).ok
       THEN /\ future_tables' = Put(future_tables, FUTURE_SUMMARY,
                                    FutureTable(workbook[FUTURE_SHEET]).df)
            /\ ret' = Returned("read_future_sheet", "", 0, TRUE)
       ELSE /\ future_tables' = future_tables
            /\ ret' = Returned("read_future_sheet", "", 0, FALSE)
    /\ export_button' = (export_button \/ ret'.ok)
    /\ UNCHANGED <<tables, deposit_tables, processed_tables, hashseed, series,
                   reduced, threshold_input, app_threshold, workbook>>

(***************************************************************************)
(* Sheets of read_future_sheet: the title, the header and body rows with   *)
(* a risk value, without one, or blank                                     *)
(***************************************************************************)
MaxFuture == 5

TitleSummary == <<27719, 24635, 34920, 65288, 20107, 19994, 37096, 21450, 20197, 19978, 39046, 23548, 35265, 26412, 27719, 24635, 34920, 21363, 21487, 65289>>  \* 汇总表（事业部及以上领导见本汇总表即可）

\* 部门, 供应商/客户, 类型, 履约风险值（元）, 备注
FutureHeader ==
    <<Str(BUMEN), Str(GONGYINGSHANG_KEHU), Str(LEIXING), Str(LVYUEFENGXIANZHI),
      Str(LabelText("beizhu"))>>

\* the header with 金额/万元 in the place of the risk value
FutureHeaderNoRisk == [FutureHeader EXCEPT ![4] = Str(LabelText("jine/wanyuan"))]

FutureRowKinds == {"value", "novalue", "nan", "detail"}

FutureRow(kind) ==
    IF kind = "value" THEN <<Str(TextU1), Str(TextA), Str(TextT1), Num(3), Str(TextX)>>
    ELSE IF kind = "novalue" THEN <<Str(TextU1), Str(TextA), Str(TextT1), NaN, Str(TextX)>>
    ELSE IF kind = "detail" THEN <<Str(CAIGOU_YUANQI), NaN, NaN, NaN, NaN>>
    ELSE <<NaN, NaN, NaN, NaN, NaN>>

FutureSheets ==
    {<<<<Str(TitleSummary), NaN, NaN, NaN, NaN>>, header>>
         \o [i \in DOMAIN shape |-> FutureRow(shape[i])] :
     header \in {FutureHeader, FutureHeaderNoRisk},
     shape \in SeqsUpTo(FutureRowKinds, MaxFuture)}

\* the sheet alone, and a file without the sheet
FutureWorkbooks ==
    {[sheet \in {FUTURE_SHEET} |-> g] : g \in FutureSheets} \cup {NoFile}

InitFuture ==
    /\ tables = NoTables
    /\ deposit_tables = NoTables
    /\ future_tables = NoTables
    /\ processed_tables = NoTables
    /\ ret = Idle
    /\ hashseed = <<>>
    /\ series = <<>>
    /\ reduced = Str(<<>>)
    /\ NoDialog
    /\ export_button = FALSE
    /\ workbook \in FutureWorkbooks

NextFuture == read_future_sheet

SpecFuture == InitFuture /\ [][NextFuture]_vars

(***************************************************************************)
(* The end of the summary table                                            *)
(***************************************************************************)
\* the column (from 1) of the header whose name holds 风险值 or 风险金额, 0
\* when there is none
RiskValueColumn(headers) ==
    Least({j \in DOMAIN headers :
              \/ Contains(CellValue(headers[j]), FENGXIANZHI)
              \/ Contains(CellValue(headers[j]), FENGXIANJINE)}, 0)

\* the first row (from 0) under the header row whose risk value is blank
\* while another cell of it is not, -1 when there is none
BoundaryRow(sheet_data, header, col) ==
    Least({i \in (header + 1)..(Len(sheet_data) - 1) :
              /\ Blank(sheet_data[i + 1][col])
              /\ \E j \in DOMAIN sheet_data[i + 1] \ {col} : ~Blank(sheet_data[i + 1][j])},
          -1)

\* read_future_sheet has stored the table of a sheet whose header has a
\* risk-value column
SummaryRead ==
    /\ ret.op = "read_future_sheet" /\ ret.ok
    /\ FUTURE_SHEET \in DOMAIN workbook
    /\ LET sheet_data == workbook[FUTURE_SHEET]
       IN RiskValueColumn(sheet_data[header_row(sheet_data, title_row(sheet_data)) + 1]) # 0

\* the stored summary table holds the rows of the sheet from under the
\* header row to the row that end gives
SummaryEndsAt(end(_, _, _)) ==
    LET sheet_data == workbook[FUTURE_SHEET]
        header == header_row(sheet_data, title_row(sheet_data))
        col == RiskValueColumn(sheet_data[header + 1])
        boundary == BoundaryRow(sheet_data, header, col)
    IN /\ FUTURE_SUMMARY \in DOMAIN future_tables
       /\ future_tables[FUTURE_SUMMARY]
              = BodyBetween(sheet_data, header, end(sheet_data, header, boundary))

\* the end as stated: the row before the boundary row, and without a
\* boundary row the row before the first run of 3 blank rows, else the last
\* row
StatedEnd(sheet_data, header, boundary) ==
    IF boundary # -1 THEN boundary - 1 ELSE RowBeforeBlankRun(sheet_data, header)

\* C25: the table that read_future_sheet stores ends at the row before the
\* first row under the header whose risk value is blank while another cell
\* is not, and without such a row at the row before the first run of at
\* least 3 fully-blank rows, else at the last row of the grid
C25_BoundaryRowElseBlankRun == SummaryRead => SummaryEndsAt(StatedEnd)

\* the first fully-blank row (from 0) under the header row, -1 when there
\* is none
FirstBlankRow(sheet_data, header) ==
    Least({i \in (header + 1)..(Len(sheet_data) - 1) : FullyBlank(sheet_data[i + 1])}, -1)

\* the end that the stored tables show: a boundary row or a blank row ends
\* the table unless it is the row under the header
ShownEnd(sheet_data, header, boundary) ==
    IF boundary > header + 1 THEN boundary - 1
    ELSE IF FirstBlankRow(sheet_data, header) > header + 1
         THEN FirstBlankRow(sheet_data, header) - 1
         ELSE Len(sheet_data) - 1

C25_BoundaryRowElseFirstBlankRow == SummaryRead => SummaryEndsAt(ShownEnd)

\* a sheet with a blank row between two rows with a risk value and no
\* boundary row: the table holds the first row alone
C25_EndsAtOneBlankRow ==
    /\ SummaryRead
    /\ LET sheet_data == workbook[FUTURE_SHEET]
       IN /\ Len(sheet_data) = 5
          /\ BoundaryRow(sheet_data, 1, 4) = -1
          /\ FirstBlankRow(sheet_data, 1) = 3
          /\ ~FullyBlank(sheet_data[5])
    /\ Len(future_tables[FUTURE_SUMMARY].rows) = 1

(***************************************************************************)
(* Rows with a blank key cell                                              *)
(***************************************************************************)
\* C26: after a bucketed operation succeeded on rows with numeric amounts,
\* the amount column summed over the aggregated rows equals the amount
\* column summed over the rows that survived the subtotal filter, also when
\* a row has a blank 板群, 经营单位 or entity cell
C26_EveryFilteredRowCounted ==
    (BucketedDone /\ AmountsAreNumbers) =>
        NumericSum(Column(LastGrouped, LastCfg.amount))
            = NumericSum(Column(LastFiltered, LastCfg.amount))

\* the same for tables whose key cells are all filled
C26_CountedWhenKeysFilled ==
    (BucketedDone /\ AmountsAreNumbers
     /\ \A i \in DOMAIN LastFiltered.rows : \A k \in DOMAIN LastCfg.keys :
            ~isna(LastFiltered.rows[i][LastCfg.keys[k]])) =>
        NumericSum(Column(LastGrouped, LastCfg.amount))
            = NumericSum(Column(LastFiltered, LastCfg.amount))

\* a row with a blank entity cell and the amount 2 next to a row of an
\* entity with the amount 2: the aggregated rows sum to 2
C26_BlankEntityRowLost ==
    /\ BucketedDone /\ AmountsAreNumbers
    /\ Len(LastFiltered.rows) = 2
    /\ \E i \in DOMAIN LastFiltered.rows : isna(LastFiltered.rows[i][LastCfg.entity])
    /\ NumericSum(Column(LastFiltered, LastCfg.amount)) = 4
    /\ NumericSum(Column(LastGrouped, LastCfg.amount)) = 2

(***************************************************************************)
(* Keys of the stored table                                                *)
(***************************************************************************)
\* no two rows of the table have the same cells in the key columns
UniqueKeys(df, keys) ==
    \A i, j \in DOMAIN df.rows :
        KeyOf(df.rows[i], keys) = KeyOf(df.rows[j], keys) => i = j

\* C29: in the table that a bucketed operation stores no two rows have the
\* same (板群, 经营单位, entity), also when an entity of the source is named
\* 其他
C29_UniqueDimensionKeys == BucketedDone => UniqueKeys(LastFinal, LastCfg.keys)

\* the same for the calls in which no entity named 其他 is retained as large
C29_UniqueWithoutLargeQita ==
    (BucketedDone /\ TotalOf(Str(QITA)) < ret.threshold)
        => UniqueKeys(LastFinal, LastCfg.keys)

\* an entity named 其他 is retained with its total of 2 and a small entity
\* of the same 板群 and 经营单位 is collapsed: two rows have the key of 其他
C29_TwoRowsOfQita ==
    /\ BucketedDone
    /\ TotalOf(Str(QITA)) >= ret.threshold
    /\ SmallRows # <<>>
    /\ Cardinality({i \in DOMAIN LastFinal.rows :
                       LastFinal.rows[i][LastCfg.entity] = Str(QITA)
                       /\ LastFinal.rows[i][LastCfg.keys[2]] = Str(TextU1)}) = 2

(***************************************************************************)
(* Two tables of one sheet                                                 *)
(***************************************************************************)
\* the rows (from 0) of a span
RowsOfSpan(span) == span.header..span.end

\* no two of the stored tables share a row
SpansDisjoint(stored, spans) ==
    \A a, b \in stored : a # b => RowsOfSpan(spans[a]) \cap RowsOfSpan(spans[b]) = {}

\* no stored table has the heading row of another stored table in its body
NoForeignHeading(stored, spans) ==
    \A a, b \in stored : a # b => (spans[b].header - 1) \notin BodyRowsOf(spans[a])

\* C27: the spans of any two tables that read_excel or read_deposit_sheet
\* stored from one sheet are disjoint, and the body of neither holds the
\* heading row of the other
C27_DisjointNoForeignHeading ==
    \A op \in ReadOps :
        (ret.op = op /\ SheetOf(op) \in DOMAIN workbook) =>
            /\ SpansDisjoint(StoredOf(op), Spans(op, workbook[SheetOf(op)]))
            /\ NoForeignHeading(StoredOf(op), Spans(op, workbook[SheetOf(op)]))

\* the spans alone
C27_SpansDisjoint ==
    \A op \in ReadOps :
        (ret.op = op /\ SheetOf(op) \in DOMAIN workbook) =>
            SpansDisjoint(StoredOf(op), Spans(op, workbook[SheetOf(op)]))

\* two tables are stored and the last body row of the upper one is the row
\* of the lower one's heading
C27_HeadingInUpperBody ==
    /\ ret.op = "read_excel" /\ RISK_SHEET \in DOMAIN workbook
    /\ workbook[RISK_SHEET]
           = <<TextRow(Title1, 1), RiskHeader, TextRow(Title2, 1), RiskHeader, RiskHeader>>
    /\ {OVERDUE_PAYMENT, OVERDUE_DELIVERY} \subseteq DOMAIN tables
    /\ Len(tables[OVERDUE_PAYMENT].rows) = 1
    /\ tables[OVERDUE_PAYMENT].rows[1]["hetonghao"] = Str(Title2)

(***************************************************************************)
(* A second file                                                           *)
(***************************************************************************)
\* the names of the tables that the read finds in the selected file
FoundInFile(op) == {PatternsOf(op)[a].name : a \in StoredOf(op)}

\* C28: once read_excel or read_deposit_sheet has returned, its dictionary
\* holds the tables found in the selected file and no table of a file read
\* before
C28_OnlyTablesOfFileRead ==
    \A op \in ReadOps : ret.op = op => DOMAIN DictOf(op) \subseteq FoundInFile(op)

\* the same for the first read of a dictionary
C28_OnlyTablesOfFirstFile ==
    [][\A op \in ReadOps :
           (ret'.op = op /\ DictOf(op) = NoTables) =>
               (IF op = "read_excel" THEN DOMAIN tables' ELSE DOMAIN deposit_tables')
                   \subseteq {PatternsOf(op)[a].name :
                                 a \in {b \in DOMAIN PatternsOf(op) :
                                           /\ SheetOf(op) \in DOMAIN workbook
                                           /\ ~Skipped(Spans(op, workbook[SheetOf(op)])[b])}}]_vars

\* read_excel has returned True on a file with the first table alone, and
\* the second table of the file read before is still in self.tables
C28_TableOfEarlierFile ==
    /\ ret.op = "read_excel" /\ ret.ok
    /\ RISK_SHEET \in DOMAIN workbook
    /\ FirstRows("read_excel", workbook[RISK_SHEET])[2] = -1
    /\ OVERDUE_DELIVERY \in DOMAIN tables
    /\ OVERDUE_PAYMENT \in DOMAIN tables

(***************************************************************************)
(* The application: one file, its sheets read and its tables processed in  *)
(* any order, and the export button                                        *)
(***************************************************************************)
\* a file with the first table of the two sheets, and one with the summary
\* sheet alone
AppWorkbooks ==
    {[sheet \in {RISK_SHEET, DEPOSIT_SHEET} |->
         IF sheet = RISK_SHEET
         THEN <<TextRow(Title1, 1), RiskHeader, RiskDataRow>>
         ELSE <<TextRow(TitleRatio, 2), DepositHeader, DepositDataRow>>],
     [sheet \in {FUTURE_SHEET} |->
         <<<<Str(TitleSummary), NaN, NaN, NaN, NaN>>, FutureHeader, FutureRow("value")>>]}

InitApp ==
    /\ tables = NoTables
    /\ deposit_tables = NoTables
    /\ future_tables = NoTables
    /\ processed_tables = NoTables
    /\ ret = Idle
    /\ hashseed = <<>>
    /\ series = <<>>
    /\ reduced = Str(<<>>)
    /\ NoDialog
    /\ export_button = FALSE
    /\ workbook \in AppWorkbooks

\* export_results, which the export button calls when it is enabled: nothing
\* is written when the three dictionaries are empty or the operator gives no
\* file name; else each table of processed_tables is written as a sheet, and
\* the writer raises on saving a workbook without a sheet
export_results ==
    /\ export_button
    /\ \E named \in BOOLEAN :
           ret' = Returned("export_results", "", 0,
                           /\ DOMAIN processed_tables \cup DOMAIN deposit_tables
                                  \cup DOMAIN future_tables # {}
                           /\ named
                           /\ DOMAIN processed_tables # {})
    /\ UNCHANGED <<tables, deposit_tables, future_tables, processed_tables, hashseed,
                   series, reduced, threshold_input, app_threshold, workbook,
                   export_button>>

NextApp ==
    \/ read_excel
    \/ read_deposit_sheet
    \/ read_future_sheet
    \/ NextResolve
    \/ export_results

SpecApp == InitApp /\ [][NextApp]_vars

\* C30: the export button is enabled only if processed_tables holds a table
C30_ExportOnlyWithResults == export_button => DOMAIN processed_tables # {}

\* the button is enabled only after a table was read or processed
C30_ExportOnlyAfterSuccess ==
    export_button =>
        DOMAIN processed_tables \cup DOMAIN deposit_tables \cup DOMAIN future_tables # {}

\* the sheet 保证金 has been read, nothing has been processed, and the export
\* that the enabled button started has failed
C30_ExportOfNothing ==
    /\ export_button
    /\ ret.op = "export_results" /\ ~ret.ok
    /\ processed_tables = NoTables
    /\ deposit_tables # NoTables

=============================================================================
